---- MODULE Spec2Model ----
(***************************************************************************)
(* NTU-Vacancy-Alert: the monitoring engine (vacancy_checker.py), the      *)
(* availability client (vacancy_api.py) and the store operations           *)
(* (database.py) they call, together with the front-end handlers (bot.py)  *)
(* that run on the same asyncio loop and therefore interleave with a       *)
(* cycle only where the cycle awaits.  The client and the table parser     *)
(* (vacancy_parser.py) are also taken on their own, one call at a time.    *)
(***************************************************************************)
EXTENDS Integers, Sequences, FiniteSets, TLC

(***************************************************************************)
(* Bounds of the model.                                                    *)
(***************************************************************************)
NumOwners == 2
NumIndexes == 2
MaxVacancy == 2
MaxWaitlist == 1
MaxSections == 2
MaxAlerts == 3
MaxRows == 4
MaxDocRows == 3
MaxParseRows == 4
MaxTextLen == 3

(***************************************************************************)
(* Program constants.                                                      *)
(***************************************************************************)
ServiceOpenHour == 8
ServiceCloseHour == 22
HttpOk == 200
NoTimestamp == 0

NULL == "NULL"
DefaultAcademicYear == "2025"
DefaultSemester == "2"

Owners == 1..NumOwners
Courses == {"SC2103"}
Indexes == 1..NumIndexes

VARIABLES
    users,        \* table users: telegram_id -> row
    alerts,       \* table alerts: sequence of rows, id = position (SERIAL)
    history,      \* table alert_history: rows in insertion order
    running,      \* VacancyChecker.running
    pc,           \* where run_forever / check_all_alerts stands
    snapshot,     \* local `alerts` of check_all_alerts
    groups,       \* keys of local `grouped_alerts`, in insertion order
    gi,           \* position of the group loop
    wi,           \* position of the alert loop inside the group
    vacancy_info, \* local `vacancy_info`: result['data'] of the group's fetch
    histAtStart,  \* Len(history) when the running cycle loaded its snapshot
    startChecked, \* last_checked of every alert when the cycle loaded
    obs,          \* this cycle: key -> outcome of its get_index_vacancy calls
    attempts,     \* this cycle: alert id -> send_message calls
    delivered,    \* this cycle: alert id -> send_message calls that returned
    storeErr,     \* this cycle: alert ids whose update_alert_check raised
    streak,       \* alert id -> sends since its section was last seen at 0
    phase,        \* alert id -> "new" | "notified" | "zeroed" | "renotified"
    current_hour, \* is_service_available: now.hour in Asia/Singapore
    html,         \* the document the upstream serves (response.text)
    call,         \* the last client call: function, course_code, index_number
    posts,        \* the requests.post calls issued by the last client call
    result,       \* what the last client call returned
    indexes       \* what the last parse_vacancy_html call returned

vars == <<users, alerts, history, running, pc, snapshot, groups, gi, wi,
          vacancy_info, histAtStart, startChecked, obs, attempts, delivered,
          storeErr, streak, phase, current_hour, html, call, posts, result,
          indexes>>

storeVars == <<users, alerts, history>>
loopVars == <<snapshot, groups, gi, wi, vacancy_info>>
cycleLog == <<histAtStart, startChecked, obs, attempts, delivered,
              storeErr>>
runLog == <<streak, phase>>
engineVars == <<users, alerts, history, running, pc, snapshot, groups, gi, wi,
                vacancy_info, histAtStart, startChecked, obs, attempts,
                delivered, storeErr, streak, phase>>
\* The client and the parser taken alone: one call, its inputs and its result.
clientVars == <<current_hour, html, call, posts, result, indexes>>

(***************************************************************************)
(* vacancy_api.py                                                          *)
(***************************************************************************)
Section(i, v, w) == [index |-> i, vacancy |-> v, waitlist |-> w]

NoData == Section(0, 0, 0)

\* The sections an answer of the upstream can list.  The waitlist is varied
\* for the sections without a seat and is empty for the others: the code only
\* copies the waitlist, into the history row and the message text.
AllSections ==
    {s \in [index : Indexes, vacancy : 0..MaxVacancy, waitlist : 0..MaxWaitlist] :
        s.vacancy > 0 => s.waitlist = 0}

SectionLists == UNION {[1..n -> AllSections] : n \in 0..MaxSections}

Hours == {7, 8, 21, 22}

Net(k, s, ok, secs) == [kind |-> k, status |-> s, parsed |-> ok, sections |-> secs]

\* What requests.post and the parser can produce for one call.
NetOutcomes ==
    {Net(k, 0, FALSE, <<>>) :
        k \in {"timeout", "connection_error", "request_error", "exception"}}
    \cup {Net("response", 503, FALSE, <<>>), Net("response", HttpOk, FALSE, <<>>)}
    \cup {Net("response", HttpOk, TRUE, s) : s \in SectionLists}

Failure(e, code) == [success |-> FALSE, error |-> e, status_code |-> code,
                     data |-> <<>>]

\* A variant of the window that still serves during the closing hour.
IsServiceAvailableInclusive(hour) ==
    ServiceOpenHour <= hour /\ hour <= ServiceCloseHour

IsServiceAvailable(hour) == ServiceOpenHour <= hour /\ hour < ServiceCloseHour

\* A variant with the single handler `except Exception` for what the request
\* raises.
GetCourseVacanciesOneHandler(course, hour, net) ==
    IF ~IsServiceAvailable(hour) THEN Failure("time_restriction", 0)
    ELSE IF net.kind # "response" THEN Failure("unknown_error", 0)
    ELSE IF net.status # HttpOk THEN Failure("http_error", net.status)
    ELSE IF ~net.parsed THEN Failure("parse_error", 0)
    ELSE [success |-> TRUE, error |-> NULL, status_code |-> 0,
          data |-> net.sections]

GetCourseVacancies(course, hour, net) ==
    IF ~IsServiceAvailable(hour) THEN Failure("time_restriction", 0)
    ELSE IF net.kind = "timeout" THEN Failure("timeout", 0)
    ELSE IF net.kind = "connection_error" THEN Failure("connection_error", 0)
    ELSE IF net.kind = "request_error" THEN Failure("request_error", 0)
    ELSE IF net.kind = "exception" THEN Failure("unknown_error", 0)
    ELSE IF net.status # HttpOk THEN Failure("http_error", net.status)
    ELSE IF ~net.parsed THEN Failure("parse_error", 0)
    ELSE [success |-> TRUE, error |-> NULL, status_code |-> 0,
          data |-> net.sections]

IndexFailure(r) == [success |-> FALSE, error |-> r.error,
                    status_code |-> r.status_code, data |-> NoData]

\* A variant whose scan keeps the last matching section instead of the first.
GetIndexVacancyLastMatch(course, index, hour, net) ==
    LET r == GetCourseVacancies(course, hour, net)
        hits == {n \in 1..Len(r.data) : r.data[n].index = index}
    IN  IF ~r.success THEN IndexFailure(r)
        ELSE IF hits = {}
             THEN IndexFailure(Failure("index_not_found", 0))
             ELSE [success |-> TRUE, error |-> NULL, status_code |-> 0,
                   data |-> r.data[CHOOSE n \in hits : \A m \in hits : n >= m]]

GetIndexVacancy(course, index, hour, net) ==
    LET r == GetCourseVacancies(course, hour, net)
        hits == {n \in 1..Len(r.data) : r.data[n].index = index}
    IN  IF ~r.success THEN IndexFailure(r)
        ELSE IF hits = {}
             THEN IndexFailure(Failure("index_not_found", 0))
             ELSE [success |-> TRUE, error |-> NULL, status_code |-> 0,
                   data |-> r.data[CHOOSE n \in hits : \A m \in hits : n <= m]]

NoResult == IndexFailure(Failure(NULL, 0))

\* Every result one call can return, over the clock and the upstream's answers.
IndexResults(course, index) ==
    {GetIndexVacancy(course, index, hour, net) : hour \in Hours, net \in NetOutcomes}

(***************************************************************************)
(* vacancy_parser.py                                                       *)
(*                                                                         *)
(* A text is the sequence of its characters.  A document is what           *)
(* BeautifulSoup makes of it: whether it can be scanned without raising,   *)
(* whether it has a <table border>, and the <tr> rows of that table, each  *)
(* row being the texts of its <td> cells after get_text(strip=True).       *)
(***************************************************************************)
Digits == <<"0", "1", "2", "3", "4", "5", "6", "7", "8", "9">>

IsDigit(c) == \E d \in 1..Len(Digits) : Digits[d] = c

DigitValue(c) == (CHOOSE d \in 1..Len(Digits) : Digits[d] = c) - 1

Nbsp == <<"&", "n", "b", "s", "p", ";">>
Dash == <<"-">>
NotApplicable == <<"N", "/", "A">>

\* str.strip()
RECURSIVE StripLeft(_)
StripLeft(t) == IF t # <<>> /\ Head(t) = " " THEN StripLeft(Tail(t)) ELSE t

RECURSIVE StripRight(_)
StripRight(t) ==
    IF t # <<>> /\ t[Len(t)] = " " THEN StripRight(SubSeq(t, 1, Len(t) - 1))
    ELSE t

Strip(t) == StripRight(StripLeft(t))

RECURSIVE DecimalValue(_)
DecimalValue(t) ==
    IF t = <<>> THEN 0
    ELSE DecimalValue(SubSeq(t, 1, Len(t) - 1)) * 10 + DigitValue(t[Len(t)])

AllDigits(t) == t # <<>> /\ \A n \in 1..Len(t) : IsDigit(t[n])

\* int(text): an optional sign and decimal digits; anything else is a ValueError.
IsIntLiteral(t) ==
    \/ AllDigits(t)
    \/ t # <<>> /\ Head(t) \in {"+", "-"} /\ AllDigits(Tail(t))

IntValue(t) ==
    IF Head(t) = "-" THEN 0 - DecimalValue(Tail(t))
    ELSE IF Head(t) = "+" THEN DecimalValue(Tail(t))
    ELSE DecimalValue(t)

\* A variant that answers -1 where int(text) raises ValueError.
ParseNumberSentinel(text) ==
    LET t == Strip(text)
    IN  IF t = <<>> \/ t \in {<<>>, Nbsp, Dash, NotApplicable} THEN 0
        ELSE IF IsIntLiteral(t) THEN IntValue(t)
        ELSE 0 - 1

\* _parse_number
ParseNumber(text) ==
    LET t == Strip(text)
    IN  IF t = <<>> \/ t \in {<<>>, Nbsp, Dash, NotApplicable} THEN 0
        ELSE IF IsIntLiteral(t) THEN IntValue(t)
        ELSE 0

ClassSession(cells) ==
    [type |-> cells[4], group |-> cells[5], day |-> cells[6], time |-> cells[7],
     venue |-> cells[8]]

IndexEntry(cells) ==
    [index |-> cells[1], vacancy |-> ParseNumber(cells[2]),
     waitlist |-> ParseNumber(cells[3]), classes |-> <<>>]

\* `if index_num and index_num not in ['', '&nbsp;']`
OpensIndex(cells) == cells[1] # <<>> /\ cells[1] \notin {<<>>, Nbsp}

\* A variant that keeps current_index at the first entry: every meeting goes to
\* the section opened first.
ParseRowFirstSection(list, cells) ==
    IF Len(cells) < 8 THEN list
    ELSE LET opened == IF OpensIndex(cells) THEN Append(list, IndexEntry(cells))
                       ELSE list
         IN  IF Len(opened) > 0 /\ cells[4] # <<>>
             THEN [opened EXCEPT ![1].classes = Append(@, ClassSession(cells))]
             ELSE opened

\* One pass of `for row in rows`.  current_index is the entry appended last.
ParseRow(list, cells) ==
    IF Len(cells) < 8 THEN list
    ELSE LET opened == IF OpensIndex(cells) THEN Append(list, IndexEntry(cells))
                       ELSE list
         IN  IF Len(opened) > 0 /\ cells[4] # <<>>
             THEN [opened EXCEPT ![Len(opened)].classes =
                                     Append(@, ClassSession(cells))]
             ELSE opened

RECURSIVE ParseRows(_, _)
ParseRows(list, rows) ==
    IF rows = <<>> THEN list
    ELSE ParseRows(ParseRow(list, Head(rows)), Tail(rows))

\* A variant that parses every row of the table, the first one too.
RowsAfterHeaderNone(rows) == rows

\* table.find_all('tr')[1:]
RowsAfterHeader(rows) == SubSeq(rows, 2, Len(rows))

Parsed(list) == [is_none |-> FALSE, list |-> list]
ParsedNone == [is_none |-> TRUE, list |-> <<>>]

\* A variant that reports a document without a table as a failure.
ParseVacancyHtmlNeedsTable(doc) ==
    IF ~doc.scans \/ ~doc.table THEN ParsedNone
    ELSE Parsed(ParseRows(<<>>, RowsAfterHeader(doc.rows)))

\* parse_vacancy_html: a list of entries, or None when an exception was caught.
ParseVacancyHtml(doc) ==
    IF ~doc.scans THEN ParsedNone
    ELSE IF ~doc.table THEN Parsed(<<>>)
    ELSE Parsed(ParseRows(<<>>, RowsAfterHeader(doc.rows)))

\* The documents of the model: tables of up to MaxDocRows rows.
IndexA == <<"1", "0", "2", "9", "4">>
IndexB == <<"1", "0", "2", "9", "5">>
Lecture == <<"L", "E", "C">>
Tutorial == <<"T", "U", "T">>

LeadTexts == {IndexA, IndexB}
VacancyTexts == {<<"3">>, <<"0">>}

RowWith(n, lead, vacancy, waitlist, type) ==
    [k \in 1..n |->
        CASE k = 1 -> lead
          [] k = 2 -> vacancy
          [] k = 3 -> waitlist
          [] k = 4 -> type
          [] k = 5 -> <<"G", "1">>
          [] k = 6 -> <<"M", "O", "N">>
          [] k = 7 -> <<"0", "8", "3", "0">>
          [] OTHER -> <<"L", "T", "1">>]

\* The row shapes of a table: a section row for each index number and vacancy
\* text, a continuation row with and without a class type, and rows with a
\* literal "&nbsp;" lead, an empty class type, seven cells and nine cells.
TableRows ==
    {RowWith(8, l, v, <<"0">>, Lecture) : l \in LeadTexts, v \in VacancyTexts}
    \cup {RowWith(8, <<>>, <<>>, <<>>, t) : t \in {Tutorial, <<>>}}
    \cup {RowWith(8, Nbsp, <<>>, <<>>, Tutorial),
          RowWith(8, IndexA, <<"3">>, NotApplicable, <<>>),
          RowWith(7, IndexA, <<"3">>, <<"0">>, Lecture),
          RowWith(9, IndexB, <<"3">>, <<"0">>, Lecture)}

\* The row shapes the upstream serves to the client: a section row for each
\* index number with seats and without, a continuation row and a short row.
ClientRows ==
    {RowWith(8, l, v, <<"0">>, Lecture) : l \in LeadTexts, v \in VacancyTexts}
    \cup {RowWith(8, <<>>, <<>>, <<>>, Tutorial),
          RowWith(7, IndexA, <<"3">>, <<"0">>, Lecture)}

Doc(scans, table, rows) == [scans |-> scans, table |-> table, rows |-> rows]

\* A document that cannot be scanned, one without a table, and every table of
\* up to max rows of the given shapes.
DocsOf(shapes, max) ==
    {Doc(FALSE, FALSE, <<>>), Doc(TRUE, FALSE, <<>>)}
    \cup {Doc(TRUE, TRUE, rows) :
            rows \in UNION {[1..n -> shapes] : n \in 0..max}}

\* The documents served to the client: a column-heading row and two sections
\* fit.
Docs == DocsOf(ClientRows, MaxDocRows)

\* The texts a numeric cell can hold: every text of up to len characters over
\* digits, a sign and a letter, and the two longer placeholders.
CellChars == {"0", "7", "-", "x"}

CellTexts(len) ==
    UNION {[1..n -> CellChars] : n \in 0..len} \cup {Nbsp, NotApplicable}

\* The row of column headings: <th> cells, so no <td> in it.
Headings == <<>>

\* The tables of one section whose vacancy and waitlist cells hold the given
\* texts.
CellDocs(texts) ==
    {Doc(TRUE, TRUE, <<Headings, RowWith(8, IndexA, v, w, Lecture)>>) :
        v \in texts, w \in texts}

\* The documents given to the parser alone: the longer tables, in which two
\* sections and a continuation row follow the column-heading row, and the
\* tables of one section with any cell text of up to len characters.
ParserDocs(max, len) == DocsOf(TableRows, max) \cup CellDocs(CellTexts(len))

(***************************************************************************)
(* database.py                                                             *)
(***************************************************************************)
NewUser == [is_active |-> TRUE, is_paused |-> FALSE, paused_until |-> NULL,
            pause_reason |-> NULL]

\* users.paused_until relative to CURRENT_TIMESTAMP: NULL, "pending" or "elapsed".
Elapsed(until) == until = "elapsed"

AddUser(us, o) ==
    IF o \in DOMAIN us THEN [us EXCEPT ![o].is_active = TRUE]
    ELSE us @@ (o :> NewUser)

GetUser(us, o) == o \in DOMAIN us /\ us[o].is_active

ResumeUser(us, o) ==
    IF o \in DOMAIN us
    THEN [us EXCEPT ![o].is_paused = FALSE, ![o].paused_until = NULL,
                    ![o].pause_reason = NULL]
    ELSE us

\* pause_user: paused_until = CURRENT_TIMESTAMP + INTERVAL, still to come.
PauseUserRow(us, o) ==
    IF o \in DOMAIN us
    THEN [us EXCEPT ![o].is_paused = TRUE, ![o].paused_until = "pending",
                    ![o].pause_reason = "manual"]
    ELSE us

StopUserRow(us, o) ==
    IF o \in DOMAIN us
    THEN [us EXCEPT ![o].is_paused = TRUE, ![o].paused_until = NULL,
                    ![o].pause_reason = "stopped"]
    ELSE us

\* A variant of stop_user that leaves the alerts to the owner's pause flag.
StopUserAlertsKept(al, o) == al

StopUserAlerts(al, o) ==
    [id \in 1..Len(al) |->
        IF al[id].telegram_id = o THEN [al[id] EXCEPT !.is_active = FALSE]
        ELSE al[id]]

\* check_user_pause_status: the table after the call and the status returned.
CheckUserPauseStatus(us, o) ==
    IF o \notin DOMAIN us
    THEN [users |-> us, pause_reason |-> NULL, is_paused |-> FALSE]
    ELSE IF us[o].is_paused /\ us[o].paused_until # NULL
            /\ us[o].pause_reason = "manual" /\ Elapsed(us[o].paused_until)
    THEN [users |-> ResumeUser(us, o), pause_reason |-> NULL, is_paused |-> FALSE]
    ELSE [users |-> us, pause_reason |-> us[o].pause_reason,
          is_paused |-> us[o].is_paused]

SameTuple(a, o, course, index, year, sem) ==
    /\ a.telegram_id = o
    /\ a.course_code = course
    /\ a.index_number = index
    /\ a.academic_year = year
    /\ a.semester = sem

\* A variant of add_alert that switches an existing row of the tuple back on
\* (an upsert) and returns its id.
AddAlertReactivate(us, al, o, course, index) ==
    IF o \notin DOMAIN us THEN [alerts |-> al, id |-> 0]
    ELSE IF \E id \in 1..Len(al) :
                SameTuple(al[id], o, course, index, DefaultAcademicYear,
                          DefaultSemester)
    THEN LET old == CHOOSE id \in 1..Len(al) :
                        SameTuple(al[id], o, course, index, DefaultAcademicYear,
                                  DefaultSemester)
         IN  [alerts |-> [al EXCEPT ![old].is_active = TRUE], id |-> old]
    ELSE [alerts |-> Append(al, [telegram_id |-> o, course_code |-> course,
                                 index_number |-> index,
                                 academic_year |-> DefaultAcademicYear,
                                 semester |-> DefaultSemester,
                                 is_active |-> TRUE,
                                 last_checked |-> NoTimestamp,
                                 last_vacancy_count |-> 0]),
          id |-> Len(al) + 1]

\* A variant of add_alert on a table without the UNIQUE constraint.
AddAlertNoUnique(us, al, o, course, index) ==
    IF o \notin DOMAIN us THEN [alerts |-> al, id |-> 0]
    ELSE [alerts |-> Append(al, [telegram_id |-> o, course_code |-> course,
                                 index_number |-> index,
                                 academic_year |-> DefaultAcademicYear,
                                 semester |-> DefaultSemester,
                                 is_active |-> TRUE,
                                 last_checked |-> NoTimestamp,
                                 last_vacancy_count |-> 0]),
          id |-> Len(al) + 1]

\* add_alert: id 0 stands for the None returned on IntegrityError.
AddAlert(us, al, o, course, index) ==
    IF \/ o \notin DOMAIN us
       \/ \E id \in 1..Len(al) :
            SameTuple(al[id], o, course, index, DefaultAcademicYear, DefaultSemester)
    THEN [alerts |-> al, id |-> 0]
    ELSE [alerts |-> Append(al, [telegram_id |-> o, course_code |-> course,
                                 index_number |-> index,
                                 academic_year |-> DefaultAcademicYear,
                                 semester |-> DefaultSemester,
                                 is_active |-> TRUE,
                                 last_checked |-> NoTimestamp,
                                 last_vacancy_count |-> 0]),
          id |-> Len(al) + 1]

\* A variant of remove_alert whose UPDATE tests the id alone.
RemoveAlertRowAnyOwner(al, id, o) ==
    [n \in 1..Len(al) |->
        IF n = id THEN [al[n] EXCEPT !.is_active = FALSE] ELSE al[n]]

RemoveAlertRow(al, id, o) ==
    [n \in 1..Len(al) |->
        IF n = id /\ al[n].telegram_id = o THEN [al[n] EXCEPT !.is_active = FALSE]
        ELSE al[n]]

\* CURRENT_TIMESTAMP of a check transaction: later transactions get later stamps.
CheckTime(hist) == Len(hist) + 1

\* A variant that records only open counts: an observation of 0 leaves the
\* stored count as it was.
UpdateAlertRowSkipZero(al, hist, id, v) ==
    [al EXCEPT ![id].last_checked = CheckTime(hist),
               ![id].last_vacancy_count = IF v = 0 THEN @ ELSE v]

\* A variant that retires a watch once its section is seen with open seats.
UpdateAlertRowRetire(al, hist, id, v) ==
    [al EXCEPT ![id].last_checked = CheckTime(hist),
               ![id].last_vacancy_count = v,
               ![id].is_active = IF v > 0 THEN FALSE ELSE @]

UpdateAlertRow(al, hist, id, v) ==
    [al EXCEPT ![id].last_checked = CheckTime(hist),
               ![id].last_vacancy_count = v]

HistoryRow(al, hist, id, v, w) ==
    [alert_id |-> id, telegram_id |-> al[id].telegram_id,
     course_code |-> al[id].course_code, index_number |-> al[id].index_number,
     vacancy_count |-> v, waitlist_count |-> w, checked_at |-> CheckTime(hist),
     notification_sent |-> FALSE]

\* A variant that writes only when the count changed.
UpdateAlertCheckOnChange(al, hist, id, v, w) ==
    IF id \notin 1..Len(al) THEN [alerts |-> al, history |-> hist, ok |-> FALSE]
    ELSE IF al[id].last_vacancy_count = v
    THEN [alerts |-> al, history |-> hist, ok |-> TRUE]
    ELSE [alerts |-> UpdateAlertRow(al, hist, id, v),
          history |-> Append(hist, HistoryRow(al, hist, id, v, w)),
          ok |-> TRUE]

\* update_alert_check when the transaction commits.
UpdateAlertCheck(al, hist, id, v, w) ==
    IF id \notin 1..Len(al)
    THEN [alerts |-> al, history |-> hist, ok |-> FALSE]
    ELSE [alerts |-> UpdateAlertRow(al, hist, id, v),
          history |-> Append(hist, HistoryRow(al, hist, id, v, w)),
          ok |-> TRUE]

RowsOf(hist, id) == {n \in 1..Len(hist) : hist[n].alert_id = id}

\* A variant whose subquery sorts the other way round: ORDER BY checked_at ASC.
OldestRow(hist, id) ==
    CHOOSE n \in RowsOf(hist, id) :
        \A m \in RowsOf(hist, id) : hist[n].checked_at <= hist[m].checked_at

\* ORDER BY checked_at DESC LIMIT 1
LatestRow(hist, id) ==
    CHOOSE n \in RowsOf(hist, id) :
        \A m \in RowsOf(hist, id) : hist[m].checked_at <= hist[n].checked_at

MarkNotificationSent(hist, id) ==
    IF RowsOf(hist, id) = {} THEN hist
    ELSE [hist EXCEPT ![LatestRow(hist, id)].notification_sent = TRUE]

\* A variant of the query's pause test that looks at the flag alone.
NotPausedFlagOnly(u) == u.is_paused = FALSE

NotPaused(u) ==
    \/ u.is_paused = FALSE
    \/ (u.is_paused = TRUE /\ u.paused_until # NULL /\ Elapsed(u.paused_until))

\* A variant of the query without the test of a.is_active.
ActiveIdsAnyAlert(us, al) ==
    {id \in 1..Len(al) :
        /\ al[id].telegram_id \in DOMAIN us
        /\ us[al[id].telegram_id].is_active
        /\ NotPaused(us[al[id].telegram_id])}

ActiveIds(us, al) ==
    {id \in 1..Len(al) :
        /\ al[id].is_active
        /\ al[id].telegram_id \in DOMAIN us
        /\ us[al[id].telegram_id].is_active
        /\ NotPaused(us[al[id].telegram_id])}

SnapshotRow(al, id) ==
    [id |-> id, telegram_id |-> al[id].telegram_id,
     course_code |-> al[id].course_code, index_number |-> al[id].index_number,
     academic_year |-> al[id].academic_year, semester |-> al[id].semester,
     last_vacancy_count |-> al[id].last_vacancy_count]

\* ORDER BY a.last_checked ASC NULLS FIRST: ties come in any order.
CheckOrders(al, ids) ==
    {s \in [1..Cardinality(ids) -> ids] :
        /\ \A i, j \in 1..Cardinality(ids) : i # j => s[i] # s[j]
        /\ \A i, j \in 1..Cardinality(ids) :
              i < j => al[s[i]].last_checked <= al[s[j]].last_checked}

\* A variant of the query without its WHERE clause: every row of the table.
GetAllAlertsUnfiltered(us, al) ==
    {[n \in 1..Len(s) |-> SnapshotRow(al, s[n])] : s \in CheckOrders(al, 1..Len(al))}

\* get_all_active_alerts: the lists the query can return.
GetAllActiveAlerts(us, al) ==
    {[n \in 1..Len(s) |-> SnapshotRow(al, s[n])] : s \in CheckOrders(al, ActiveIds(us, al))}

(***************************************************************************)
(* vacancy_checker.py: grouping                                            *)
(***************************************************************************)
KeyOf(a) == <<a.course_code, a.index_number>>

\* A variant without the `if key not in grouped_alerts` test: one entry per alert.
GroupKeysPerAlert(list) == [n \in 1..Len(list) |-> KeyOf(list[n])]

\* Keys of grouped_alerts in insertion order (a dict keeps first-seen order).
GroupKeys(list) ==
    LET firsts == {n \in 1..Len(list) :
                      \A m \in 1..(n - 1) : KeyOf(list[m]) # KeyOf(list[n])}
        F[n \in 0..Len(list)] ==
            IF n = 0 THEN <<>>
            ELSE IF n \in firsts THEN Append(F[n - 1], KeyOf(list[n]))
            ELSE F[n - 1]
    IN  F[Len(list)]

IsKey(k, a) == KeyOf(a) = k

GroupOf(list, k) == SelectSeq(list, LAMBDA a : IsKey(k, a))

\* Variants of the rule that a slip in the condition would give: notify on any
\* rise of the count, and notify whenever seats are open.
ShouldNotifyOnRise(old_vacancy, new_vacancy) == old_vacancy < new_vacancy

ShouldNotifyOnLevel(old_vacancy, new_vacancy) == new_vacancy > 0

\* The edge-trigger rule of check_all_alerts.
ShouldNotify(old_vacancy, new_vacancy) == old_vacancy = 0 /\ new_vacancy > 0


\* check_alert(alert) for one row `a` of get_all_active_alerts, given the result
\* r of its get_index_vacancy call and whether update_alert_check and
\* mark_notification_sent commit: the store after it, the send_notification
\* calls it made and the value it returns.  No caller exists in the program.
CheckAlert(al, hist, a, r, update_ok, mark_ok) ==
    IF ~r.success \/ ~update_ok
    THEN [alerts |-> al, history |-> hist, sends |-> 0, ok |-> FALSE]
    ELSE LET u == UpdateAlertCheck(al, hist, a.id, r.data.vacancy, r.data.waitlist)
             notify == a.last_vacancy_count = 0 /\ r.data.vacancy > 0
         IN  [alerts |-> u.alerts,
              history |-> IF notify /\ mark_ok
                          THEN MarkNotificationSent(u.history, a.id)
                          ELSE u.history,
              sends |-> IF notify THEN 1 ELSE 0,
              ok |-> ~notify \/ mark_ok]

(***************************************************************************)
(* The log kept beside the program to state the claims.                    *)
(***************************************************************************)
Keys == Courses \X Indexes
AlertIds == 1..MaxAlerts

NoObs == [calls |-> 0, success |-> FALSE, data |-> NoData]

Bump(f, id) == [f EXCEPT ![id] = @ + 1]

\* The alerts of the group being processed and the one the loop stands at.
CurrentKey == groups[gi]
CurrentGroup == GroupOf(snapshot, CurrentKey)
CurrentAlert == CurrentGroup[wi]

\* Rows the running cycle may still append: the bound MaxRows on the rows of
\* alerts and alert_history together is kept by leaving room for them.
Pending ==
    Cardinality({n \in 1..Len(snapshot) :
        \E g \in gi..Len(groups) : KeyOf(snapshot[n]) = groups[g]})

\* asyncio runs a handler of the front end only while the checker awaits.
AwaitPoints == {"send", "pace", "idle"}

\* No call of the client or the parser has been made on their own.
NoCall == [fn |-> "none", course_code |-> NULL, index_number |-> <<>>]

ClientIdle ==
    /\ call = NoCall
    /\ posts = <<>>
    /\ result = NoResult
    /\ indexes = ParsedNone

EngineInit ==
    /\ users = <<>>
    /\ alerts = <<>>
    /\ history = <<>>
    /\ running = FALSE
    /\ pc = "start"
    /\ snapshot = <<>>
    /\ groups = <<>>
    /\ gi = 1
    /\ wi = 1
    /\ vacancy_info = NoData
    /\ histAtStart = 0
    /\ startChecked = [id \in AlertIds |-> NoTimestamp]
    /\ obs = [k \in Keys |-> NoObs]
    /\ attempts = [id \in AlertIds |-> 0]
    /\ delivered = [id \in AlertIds |-> 0]
    /\ storeErr = {}
    /\ streak = [id \in AlertIds |-> 0]
    /\ phase = [id \in AlertIds |-> "new"]

Init ==
    /\ EngineInit
    /\ current_hour = ServiceOpenHour
    /\ html = Doc(TRUE, FALSE, <<>>)
    /\ ClientIdle

(***************************************************************************)
(* vacancy_checker.py: run_forever and check_all_alerts                    *)
(***************************************************************************)
RunForever ==
    /\ pc = "start"
    /\ running' = TRUE
    /\ pc' = "loop"
    /\ UNCHANGED <<clientVars, storeVars, loopVars, cycleLog, runLog>>

\* while self.running: check_all_alerts() up to the grouping.  A store error in
\* get_all_active_alerts is caught there and gives the empty list.
BeginCycle ==
    /\ pc = "loop"
    /\ running
    /\ \E list \in GetAllActiveAlerts(users, alerts) \cup {<<>>} :
          /\ Len(alerts) + Len(history) + Len(list) <= MaxRows
          /\ snapshot' = list
          /\ groups' = GroupKeys(list)
          /\ pc' = IF Len(list) = 0 THEN "after_cycle" ELSE "group"
    /\ gi' = 1
    /\ wi' = 1
    /\ vacancy_info' = NoData
    /\ histAtStart' = Len(history)
    /\ startChecked' = [id \in AlertIds |->
                          IF id <= Len(alerts) THEN alerts[id].last_checked
                          ELSE NoTimestamp]
    /\ obs' = [k \in Keys |-> NoObs]
    /\ attempts' = [id \in AlertIds |-> 0]
    /\ delivered' = [id \in AlertIds |-> 0]
    /\ storeErr' = {}
    /\ UNCHANGED <<clientVars, storeVars, running, runLog>>

\* A variant whose loop never ends: `while True`, sleeping when the checker is
\* not running.
LoopExitKeepsPolling ==
    /\ pc = "loop"
    /\ ~running
    /\ pc' = "idle"
    /\ UNCHANGED <<clientVars, storeVars, running, loopVars, cycleLog, runLog>>

\* `while self.running` finds the flag cleared: run_forever returns.
LoopExit ==
    /\ pc = "loop"
    /\ ~running
    /\ pc' = "done"
    /\ UNCHANGED <<clientVars, storeVars, running, loopVars, cycleLog, runLog>>

\* The for loop over grouped_alerts has no group left.
GroupsDone ==
    /\ pc = "group"
    /\ gi > Len(groups)
    /\ pc' = "after_cycle"
    /\ UNCHANGED <<clientVars, storeVars, running, loopVars, cycleLog, runLog>>

\* if not self.running: break
GroupBreak ==
    /\ pc = "group"
    /\ gi <= Len(groups)
    /\ ~running
    /\ pc' = "after_cycle"
    /\ UNCHANGED <<clientVars, storeVars, running, loopVars, cycleLog, runLog>>

\* Variants of the branch on result['success']: one that goes into the alerts
\* whatever the result, one that leaves the group loop on a failure.
AfterFetchAlways(r) == "alert"

AfterFetchStopOnFailure(r) == IF r.success THEN "alert" ELSE "after_cycle"

\* A step of the group loop outside the alert loop's try (the fetch call, the
\* read of its result, a log call) raises: the except at the end of
\* check_all_alerts catches and logs it.
CycleRaises ==
    /\ pc = "group"
    /\ gi <= Len(groups)
    /\ running
    /\ pc' = "caught"
    /\ UNCHANGED <<clientVars, storeVars, running, loopVars, cycleLog, runLog>>

\* A variant in which the error leaves check_all_alerts and ends run_forever.
AfterCaughtExit == "done"

\* Where run_forever goes when check_all_alerts has caught an error and
\* returned: no exception reaches its own except (the sleep(60) branch), so it
\* is the `if self.running: sleep(CHECK_INTERVAL)` that follows the call.
AfterCaught == IF running THEN "idle" ELSE "loop"

CaughtReturn ==
    /\ pc = "caught"
    /\ pc' = AfterCaught
    /\ snapshot' = <<>>
    /\ groups' = <<>>
    /\ gi' = 1
    /\ wi' = 1
    /\ vacancy_info' = NoData
    /\ histAtStart' = 0
    /\ startChecked' = [id \in AlertIds |-> NoTimestamp]
    /\ obs' = [k \in Keys |-> NoObs]
    /\ attempts' = [id \in AlertIds |-> 0]
    /\ delivered' = [id \in AlertIds |-> 0]
    /\ storeErr' = {}
    /\ UNCHANGED <<clientVars, storeVars, running, runLog>>

\* Where the group loop goes after the fetch: into the alerts, or sleep and continue.
AfterFetch(r) == IF r.success THEN "alert" ELSE "pace"

\* A scheduler fetch that sees the section at 0 ends the streak of its watches.
StreakAfterFetch(k, r) ==
    IF r.success /\ r.data.vacancy = 0
    THEN [id \in AlertIds |->
            IF id <= Len(alerts) /\ KeyOf(alerts[id]) = k THEN 0 ELSE streak[id]]
    ELSE streak

\* A variant of the group loop without the `if not self.running: break` test.
FetchGroupUnguarded ==
    /\ pc = "group"
    /\ gi <= Len(groups)
    /\ \E r \in IndexResults(CurrentKey[1], CurrentKey[2]) :
              /\ vacancy_info' = r.data
              /\ obs' = [obs EXCEPT ![CurrentKey] =
                            [calls |-> @.calls + 1, success |-> r.success,
                             data |-> r.data]]
              /\ streak' = StreakAfterFetch(CurrentKey, r)
              /\ pc' = AfterFetch(r)
    /\ wi' = 1
    /\ UNCHANGED <<clientVars, storeVars, running, snapshot, groups, gi, histAtStart,
                   startChecked, attempts, delivered, storeErr, phase>>

\* result = vacancy_api.get_index_vacancy(course_code, index_number)
FetchGroup ==
    /\ pc = "group"
    /\ gi <= Len(groups)
    /\ running
    /\ \E r \in IndexResults(CurrentKey[1], CurrentKey[2]) :
              /\ vacancy_info' = r.data
              /\ obs' = [obs EXCEPT ![CurrentKey] =
                            [calls |-> @.calls + 1, success |-> r.success,
                             data |-> r.data]]
              /\ streak' = StreakAfterFetch(CurrentKey, r)
              /\ pc' = AfterFetch(r)
    /\ wi' = 1
    /\ UNCHANGED <<clientVars, storeVars, running, snapshot, groups, gi, histAtStart,
                   startChecked, attempts, delivered, storeErr, phase>>

\* A variant in which the alert loop also tests self.running and leaves the
\* group when the checker was stopped.
AlertsDoneOrStopped ==
    /\ pc = "alert"
    /\ (wi > Len(CurrentGroup) \/ ~running)
    /\ pc' = "pace"
    /\ UNCHANGED <<clientVars, storeVars, running, loopVars, cycleLog, runLog>>

\* The for loop over alert_list has no alert left: log, then sleep(2).
AlertsDone ==
    /\ pc = "alert"
    /\ wi > Len(CurrentGroup)
    /\ pc' = "pace"
    /\ UNCHANGED <<clientVars, storeVars, running, loopVars, cycleLog, runLog>>

\* A variant whose alert loop has no try of its own: the error of
\* update_alert_check reaches the except at the end of check_all_alerts.
UpdateRaisesEndsCycle ==
    /\ pc = "alert"
    /\ wi <= Len(CurrentGroup)
    /\ storeErr' = storeErr \cup {CurrentAlert.id}
    /\ pc' = "caught"
    /\ UNCHANGED <<clientVars, storeVars, running, snapshot, groups, gi, wi,
                   vacancy_info, histAtStart, startChecked, obs, attempts,
                   delivered, runLog>>

\* db.update_alert_check raises: the except of the alert loop logs it.
UpdateRaises ==
    /\ pc = "alert"
    /\ wi <= Len(CurrentGroup)
    /\ storeErr' = storeErr \cup {CurrentAlert.id}
    /\ wi' = wi + 1
    /\ UNCHANGED <<clientVars, storeVars, running, pc, snapshot, groups, gi, vacancy_info,
                   histAtStart, startChecked, obs, attempts, delivered, runLog>>

PhaseAfterWrite(p, v, notify) ==
    IF notify THEN (IF p = "zeroed" THEN "renotified" ELSE "notified")
    ELSE IF v = 0 /\ p \in {"notified", "renotified"} THEN "zeroed"
    ELSE p

\* db.update_alert_check commits, then the edge-trigger rule: either the send
\* is awaited or the loop moves to the next alert.
UpdateAlert ==
    /\ pc = "alert"
    /\ wi <= Len(CurrentGroup)
    /\ LET a == CurrentAlert
           v == vacancy_info.vacancy
           u == UpdateAlertCheck(alerts, history, a.id, v, vacancy_info.waitlist)
           notify == ShouldNotify(a.last_vacancy_count, v)
       IN  /\ alerts' = u.alerts
           /\ history' = u.history
           /\ pc' = IF notify THEN "send" ELSE "alert"
           /\ wi' = IF notify THEN wi ELSE wi + 1
           /\ attempts' = IF notify THEN Bump(attempts, a.id) ELSE attempts
           /\ streak' = IF notify THEN Bump(streak, a.id) ELSE streak
           /\ phase' = [phase EXCEPT ![a.id] = PhaseAfterWrite(@, v, notify)]
    /\ UNCHANGED <<clientVars, users, running, snapshot, groups, gi, vacancy_info,
                   histAtStart, startChecked, obs, delivered, storeErr>>

\* A variant that tries the same alert again when the send failed.
AlertAfterSendRetry(ok) == IF ok THEN wi + 1 ELSE wi

\* Where the alert loop stands once send_notification has returned: it returns
\* normally whether bot.send_message returned (ok) or raised, so the next alert.
AlertAfterSend(ok) == wi + 1

\* bot.send_message returns or raises (send_notification swallows it); then
\* db.mark_notification_sent commits or raises into the except of the alert loop.
SendCompletes ==
    /\ pc = "send"
    /\ \E ok \in BOOLEAN :
          /\ delivered' = IF ok THEN Bump(delivered, CurrentAlert.id) ELSE delivered
          /\ wi' = AlertAfterSend(ok)
    /\ \/ history' = MarkNotificationSent(history, CurrentAlert.id)
       \/ history' = history
    /\ pc' = "alert"
    /\ UNCHANGED <<clientVars, users, alerts, running, snapshot, groups, gi, vacancy_info,
                   histAtStart, startChecked, obs, attempts, storeErr, runLog>>

\* A variant in which run_forever does not wait for check_all_alerts: its loop
\* comes round to the while test while the cycle sleeps between two groups.
PaceDoneLoopAgain ==
    /\ pc = "pace"
    /\ gi' = gi + 1
    /\ pc' = "loop"
    /\ UNCHANGED <<clientVars, storeVars, running, snapshot, groups, wi, vacancy_info, cycleLog,
                   runLog>>

\* await asyncio.sleep(2) is over: the next group.
PaceDone ==
    /\ pc = "pace"
    /\ gi' = gi + 1
    /\ pc' = "group"
    /\ UNCHANGED <<clientVars, storeVars, running, snapshot, groups, wi, vacancy_info, cycleLog,
                   runLog>>

\* check_all_alerts returns: its locals are gone and the log of the cycle is closed.
Return ==
    /\ snapshot' = <<>>
    /\ groups' = <<>>
    /\ gi' = 1
    /\ wi' = 1
    /\ vacancy_info' = NoData
    /\ histAtStart' = 0
    /\ startChecked' = [id \in AlertIds |-> NoTimestamp]
    /\ obs' = [k \in Keys |-> NoObs]
    /\ attempts' = [id \in AlertIds |-> 0]
    /\ delivered' = [id \in AlertIds |-> 0]
    /\ storeErr' = {}

\* check_all_alerts returned: if self.running, sleep CHECK_INTERVAL.
CycleSleep ==
    /\ pc = "after_cycle"
    /\ running
    /\ pc' = "idle"
    /\ Return
    /\ UNCHANGED <<clientVars, storeVars, running, runLog>>

CycleNoSleep ==
    /\ pc = "after_cycle"
    /\ ~running
    /\ pc' = "loop"
    /\ Return
    /\ UNCHANGED <<clientVars, storeVars, running, runLog>>

\* A variant in which the loop body runs once: after the sleep run_forever ends.
IdleDoneExit ==
    /\ pc = "idle"
    /\ pc' = "done"
    /\ UNCHANGED <<clientVars, storeVars, running, loopVars, cycleLog, runLog>>

\* await asyncio.sleep(config.CHECK_INTERVAL) is over: back to the while test.
IdleDone ==
    /\ pc = "idle"
    /\ pc' = "loop"
    /\ UNCHANGED <<clientVars, storeVars, running, loopVars, cycleLog, runLog>>

Stop ==
    /\ pc \in AwaitPoints
    /\ running
    /\ running' = FALSE
    /\ UNCHANGED <<clientVars, storeVars, pc, loopVars, cycleLog, runLog>>

(***************************************************************************)
(* bot.py: the handlers that change the store                              *)
(***************************************************************************)
\* start_command, add_alert_start, list_alerts: db.add_user
StartCommand(o) ==
    /\ pc \in AwaitPoints
    /\ users' = AddUser(users, o)
    /\ UNCHANGED <<clientVars, alerts, history, running, pc, loopVars, cycleLog, runLog>>

\* add_alert_index, entered from add_alert_start (which registered the user).
AddAlertIndex(o, course, index) ==
    /\ pc \in AwaitPoints
    /\ o \in DOMAIN users
    /\ LET st == CheckUserPauseStatus(users, o)
           us == IF st.pause_reason = "stopped" THEN ResumeUser(st.users, o)
                 ELSE st.users
           add == AddAlert(us, alerts, o, course, index)
       IN  /\ add.id # 0 => /\ Len(alerts) < MaxAlerts
                          /\ Len(alerts) + Len(history) + Pending < MaxRows
           /\ users' = us
           /\ IF add.id = 0
              THEN UNCHANGED <<alerts, history>>
              ELSE \E r \in IndexResults(course, index) :
                      LET u == UpdateAlertCheck(add.alerts, history, add.id,
                                                r.data.vacancy, r.data.waitlist)
                      IN  \/ /\ r.success
                             /\ Len(add.alerts) + Len(history) + Pending < MaxRows
                             /\ alerts' = u.alerts
                             /\ history' = u.history
                          \/ /\ alerts' = add.alerts
                             /\ history' = history
    /\ UNCHANGED <<clientVars, running, pc, loopVars, cycleLog, runLog>>

\* remove_alert: db.remove_alert(alert_id, update.effective_user.id)
RemoveAlert(o, id) ==
    /\ pc \in AwaitPoints
    /\ alerts' = RemoveAlertRow(alerts, id, o)
    /\ UNCHANGED <<clientVars, users, history, running, pc, loopVars, cycleLog, runLog>>

\* stop_alerts: db.get_user, then db.stop_user
StopAlerts(o) ==
    /\ pc \in AwaitPoints
    /\ GetUser(users, o)
    /\ users' = StopUserRow(users, o)
    /\ alerts' = StopUserAlerts(alerts, o)
    /\ UNCHANGED <<clientVars, history, running, pc, loopVars, cycleLog, runLog>>

Checker ==
    \/ RunForever
    \/ BeginCycle
    \/ LoopExit
    \/ GroupsDone
    \/ GroupBreak
    \/ CycleRaises
    \/ CaughtReturn
    \/ FetchGroup
    \/ AlertsDone
    \/ UpdateRaises
    \/ UpdateAlert
    \/ SendCompletes
    \/ PaceDone
    \/ CycleSleep
    \/ CycleNoSleep
    \/ IdleDone

\* Owners are interchangeable and so are index numbers: the first alert of the
\* store is taken to be owner 1's, on index 1.
FirstAlert(o, i) == Len(alerts) = 0 => (o = 1 /\ i = 1)

\* The handlers, run by the owners os.
FrontEndFor(os) ==
    \/ \E o \in os : StartCommand(o)
    \/ \E o \in os, c \in Courses, i \in Indexes :
          FirstAlert(o, i) /\ AddAlertIndex(o, c, i)
    \/ \E o \in os, id \in AlertIds : RemoveAlert(o, id)
    \/ \E o \in os : StopAlerts(o)

FrontEnd == FrontEndFor(Owners)

Next == Checker \/ FrontEnd \/ Stop

Spec == Init /\ [][Next]_vars

(***************************************************************************)
(* The store's pause operations and its two readers of the pause state,    *)
(* taken while the checker sleeps between two cycles.  pause_user is part  *)
(* of database.py; no handler of bot.py calls it.                          *)
(***************************************************************************)
\* The state in which the first cycle, over an empty store, has ended.
PauseInit ==
    /\ users = <<>>
    /\ alerts = <<>>
    /\ history = <<>>
    /\ running = TRUE
    /\ pc = "idle"
    /\ snapshot = <<>>
    /\ groups = <<>>
    /\ gi = 1
    /\ wi = 1
    /\ vacancy_info = NoData
    /\ histAtStart = 0
    /\ startChecked = [id \in AlertIds |-> NoTimestamp]
    /\ obs = [k \in Keys |-> NoObs]
    /\ attempts = [id \in AlertIds |-> 0]
    /\ delivered = [id \in AlertIds |-> 0]
    /\ storeErr = {}
    /\ streak = [id \in AlertIds |-> 0]
    /\ phase = [id \in AlertIds |-> "new"]
    /\ current_hour = ServiceOpenHour
    /\ html = Doc(TRUE, FALSE, <<>>)
    /\ ClientIdle

\* db.pause_user(telegram_id)
PauseUser(o) ==
    /\ o \in DOMAIN users
    /\ users' = PauseUserRow(users, o)
    /\ UNCHANGED <<clientVars, alerts, history, running, pc, loopVars, cycleLog, runLog>>

\* CURRENT_TIMESTAMP passes the paused_until of owner o.
ClockPasses(o) ==
    /\ o \in DOMAIN users
    /\ users[o].paused_until = "pending"
    /\ users' = [users EXCEPT ![o].paused_until = "elapsed"]
    /\ UNCHANGED <<clientVars, alerts, history, running, pc, loopVars, cycleLog, runLog>>

\* db.check_user_pause_status(telegram_id), with its auto-resume.
CheckPause(o) ==
    /\ o \in DOMAIN users
    /\ users' = CheckUserPauseStatus(users, o).users
    /\ UNCHANGED <<clientVars, alerts, history, running, pc, loopVars, cycleLog, runLog>>

\* db.get_all_active_alerts(): the list read is kept in snapshot.
LoadActive ==
    /\ \E list \in GetAllActiveAlerts(users, alerts) : snapshot' = list
    /\ UNCHANGED <<clientVars, storeVars, running, pc, groups, gi, wi, vacancy_info,
                   cycleLog, runLog>>

PauseNext ==
    \/ \E o \in Owners : PauseUser(o)
    \/ \E o \in Owners : ClockPasses(o)
    \/ \E o \in Owners : CheckPause(o)
    \/ LoadActive
    \/ FrontEnd

PauseSpec == PauseInit /\ [][PauseNext]_vars

(***************************************************************************)
(* vacancy_api.py with vacancy_parser.py: one call of the client, at the   *)
(* hour current_hour, while the upstream serves the document html.         *)
(***************************************************************************)
Statuses == {HttpOk, 503, 404}

\* What requests.post does: raise, or return a response with a status.
UpstreamAnswers ==
    {<<k, 0>> : k \in {"timeout", "connection_error", "request_error", "exception"}}
    \cup {<<"response", st>> : st \in Statuses}

\* The outcome of the post and of parsing response.text.
Upstream(answer, doc) ==
    IF answer[1] = "response"
    THEN Net("response", answer[2], ~ParseVacancyHtml(doc).is_none,
             ParseVacancyHtml(doc).list)
    ELSE Net(answer[1], 0, FALSE, <<>>)

\* The requests.post calls one get_course_vacancies makes.
Requests(course, hour, answer) ==
    IF ~IsServiceAvailable(hour) THEN <<>>
    ELSE <<[subj |-> course, outcome |-> answer[1], status_code |-> answer[2]]>>

IndexTexts == LeadTexts \cup {<<"1", "0", "2", "9">>}

\* api.get_course_vacancies(course_code)
CourseCall(course, answer) ==
    /\ call' = [fn |-> "get_course_vacancies", course_code |-> course,
                index_number |-> <<>>]
    /\ posts' = Requests(course, current_hour, answer)
    /\ result' = GetCourseVacancies(course, current_hour, Upstream(answer, html))
    /\ UNCHANGED <<engineVars, current_hour, html, indexes>>

\* api.get_index_vacancy(course_code, index_number)
IndexCall(course, index, answer) ==
    /\ call' = [fn |-> "get_index_vacancy", course_code |-> course,
                index_number |-> index]
    /\ posts' = Requests(course, current_hour, answer)
    /\ result' = GetIndexVacancy(course, index, current_hour,
                                 Upstream(answer, html))
    /\ UNCHANGED <<engineVars, current_hour, html, indexes>>

ClientInit ==
    /\ EngineInit
    /\ current_hour \in Hours
    /\ html \in Docs
    /\ ClientIdle

ClientNext ==
    \/ \E c \in Courses, a \in UpstreamAnswers : CourseCall(c, a)
    \/ \E c \in Courses, i \in IndexTexts, a \in UpstreamAnswers :
          IndexCall(c, i, a)

ClientSpec == ClientInit /\ [][ClientNext]_vars

\* VacancyParser.parse_vacancy_html(html, course_code)
ParseCall(course) ==
    /\ call' = [fn |-> "parse_vacancy_html", course_code |-> course,
                index_number |-> <<>>]
    /\ indexes' = ParseVacancyHtml(html)
    /\ UNCHANGED <<engineVars, current_hour, html, posts, result>>

ParserInit ==
    /\ EngineInit
    /\ current_hour = ServiceOpenHour
    /\ html \in ParserDocs(MaxParseRows, MaxTextLen)
    /\ ClientIdle

ParserNext == \E c \in Courses : ParseCall(c)

ParserSpec == ParserInit /\ [][ParserNext]_vars

(***************************************************************************)
(* What the running cycle loaded and did, read from the state and the log. *)
(***************************************************************************)
SnapIds == {snapshot[n].id : n \in 1..Len(snapshot)}

\* The row of alert id as the cycle loaded it.
Loaded(id) == snapshot[CHOOSE n \in 1..Len(snapshot) : snapshot[n].id = id]

\* The outcome of the cycle's fetch for the group of alert id.
Observed(id) == obs[KeyOf(Loaded(id))]

\* The history rows appended for alert id since the cycle loaded its snapshot.
CycleRows(id) == {n \in (histAtStart + 1)..Len(history) : history[n].alert_id = id}

Written(id) == CycleRows(id) # {}

GroupIndex(k) ==
    CHOOSE g \in 1..Len(groups) :
        groups[g] = k /\ \A h \in 1..(g - 1) : groups[h] # k

PosInGroup(id) ==
    LET grp == GroupOf(snapshot, KeyOf(Loaded(id)))
    IN  CHOOSE p \in 1..Len(grp) : grp[p].id = id

\* The group loop is past group g.
GroupDone(g) == g < gi \/ (g = gi /\ pc = "pace")

\* The alert loop is past alert id: its iteration has ended.
Passed(id) ==
    LET g == GroupIndex(KeyOf(Loaded(id)))
    IN  \/ g < gi
        \/ g = gi /\ pc \in {"alert", "send", "pace"} /\ PosInGroup(id) < wi

Sending(id) == pc = "send" /\ CurrentAlert.id = id

(***************************************************************************)
(* C1..C3: the edge-trigger rule                                           *)
(***************************************************************************)
\* C1: in a cycle, a watch of the loaded snapshot whose group fetch succeeded
\* and whose store write committed has exactly one send attempted if its
\* last_vacancy_count as loaded was 0 and the observed vacancy is > 0, and no
\* send attempted otherwise.
C1_EdgeTriggerPerCycle ==
    \A id \in SnapIds :
        (Observed(id).success /\ Written(id)) =>
            attempts[id] =
                IF Loaded(id).last_vacancy_count = 0
                   /\ Observed(id).data.vacancy > 0
                THEN 1 ELSE 0

\* A watch loaded at 0 was written with an open section and got its send; the
\* send has completed.
C1_Witness ==
    \E id \in SnapIds :
        /\ Observed(id).success
        /\ Written(id)
        /\ Loaded(id).last_vacancy_count = 0
        /\ Observed(id).data.vacancy > 0
        /\ attempts[id] = 1
        /\ ~Sending(id)

\* C2: over consecutive cycles in which every successful observation of a
\* watch's section has vacancy > 0, at most one notification is sent for the
\* watch: streak counts the sends since the section was last observed at 0.
C2_OneSendPerStreak == \A id \in AlertIds : streak[id] <= 1

\* A watch notified in an earlier cycle is written with the section still open
\* in the running cycle, and no send is attempted for it.
C2_Witness ==
    \E id \in SnapIds :
        /\ streak[id] = 1
        /\ Loaded(id).last_vacancy_count > 0
        /\ Observed(id).success
        /\ Observed(id).data.vacancy > 0
        /\ Written(id)
        /\ attempts[id] = 0

\* C3: a watch that was notified and then written as 0 (phase "zeroed") gets a
\* send attempted in the cycle step that next writes it with vacancy > 0.
C3_RenotifyAfterZero ==
    [][\A id \in AlertIds :
          (/\ phase[id] = "zeroed"
           /\ id \in 1..Len(alerts)
           /\ alerts'[id].last_checked # alerts[id].last_checked
           /\ alerts'[id].last_vacancy_count > 0)
          => (attempts'[id] = attempts[id] + 1 /\ pc' = "send")]_vars

\* A watch notified, written as 0 and notified again on the reopening.
C3_Witness == \E id \in AlertIds : phase[id] = "renotified" /\ attempts[id] = 1

(***************************************************************************)
(* C4..C8: one fetch per group, failures and writes                        *)
(***************************************************************************)
\* Every alert of group g that the loop has passed was written, unless its
\* update raised.
GroupWritten(g) ==
    \A id \in SnapIds :
        (KeyOf(Loaded(id)) = groups[g] /\ id \notin storeErr) => Written(id)

\* C4: in one cycle each distinct (course_code, index_number) of the loaded
\* watches is one group; get_index_vacancy is called at most once for it and
\* exactly once when the group is reached before a stop (every group, when
\* the cycle ends unstopped), whether the call succeeds or fails; on success
\* every watch of the group is written with the vacancy and waitlist of that
\* one result.
C4_OneFetchPerGroup ==
    /\ \A g, h \in 1..Len(groups) : g # h => groups[g] # groups[h]
    /\ \A id \in SnapIds : \E g \in 1..Len(groups) : groups[g] = KeyOf(Loaded(id))
    /\ \A k \in Keys : obs[k].calls <= 1
    /\ \A g \in 1..Len(groups) :
          (GroupDone(g) \/ (g = gi /\ pc \in {"alert", "send"}))
              => obs[groups[g]].calls = 1
    /\ (pc = "after_cycle" /\ running) =>
          \A g \in 1..Len(groups) : obs[groups[g]].calls = 1
    /\ \A g \in 1..Len(groups) :
          (GroupDone(g) /\ obs[groups[g]].success) => GroupWritten(g)
    /\ \A id \in SnapIds : \A n \in CycleRows(id) :
          /\ history[n].vacancy_count = Observed(id).data.vacancy
          /\ history[n].waitlist_count = Observed(id).data.waitlist

\* Two watches share a section: the group loop is past their group after one
\* successful call and both carry its result.
C4_Witness ==
    \E id1, id2 \in SnapIds :
        /\ id1 # id2
        /\ KeyOf(Loaded(id1)) = KeyOf(Loaded(id2))
        /\ GroupDone(GroupIndex(KeyOf(Loaded(id1))))
        /\ Observed(id1).calls = 1
        /\ Observed(id1).success
        /\ Written(id1)
        /\ Written(id2)

FetchFailed(k) == obs[k].calls >= 1 /\ ~obs[k].success

\* C5: when the fetch of a group returned a failure, in that cycle no watch of
\* the group has last_vacancy_count or last_checked changed, no history row is
\* appended for it and no notification is sent for it.
C5_FailedFetchLeavesGroup ==
    \A id \in SnapIds :
        FetchFailed(KeyOf(Loaded(id))) =>
            /\ alerts[id].last_vacancy_count = Loaded(id).last_vacancy_count
            /\ alerts[id].last_checked = startChecked[id]
            /\ CycleRows(id) = {}
            /\ attempts[id] = 0

\* The fetch of a watch's group failed and the group loop has gone on.
C5_Witness ==
    \E id \in SnapIds :
        /\ FetchFailed(KeyOf(Loaded(id)))
        /\ GroupIndex(KeyOf(Loaded(id))) < gi

\* C6: a failed fetch for one group does not end the cycle: the loop goes on
\* to the next group, every later group is still fetched and processed unless
\* the checker was stopped, and check_all_alerts ends by returning.
C6_FailureDoesNotEndCycle ==
    /\ [](\A g, h \in 1..Len(groups) :
             (g < h /\ FetchFailed(groups[g]) /\ pc = "after_cycle" /\ running)
                 => /\ obs[groups[h]].calls = 1
                    /\ obs[groups[h]].success => GroupWritten(h))
    /\ [][(pc = "pace" /\ FetchFailed(groups[gi]) /\ pc' # pc)
             => (pc' = "group" /\ gi' = gi + 1 /\ groups' = groups)]_vars

\* The first group's fetch failed, the second group's succeeded and its watch
\* was written; the cycle has ended unstopped.
C6_Witness ==
    /\ pc = "after_cycle"
    /\ running
    /\ \E g, h \in 1..Len(groups) :
          /\ g < h
          /\ FetchFailed(groups[g])
          /\ obs[groups[h]].success
          /\ \E id \in SnapIds : KeyOf(Loaded(id)) = groups[h] /\ Written(id)

\* C7: after a successful group fetch, every watch of the group whose update
\* did not raise has last_vacancy_count equal to the observed vacancy and
\* exactly one history row of this cycle, carrying the observed vacancy and
\* waitlist, whether or not the edge-trigger rule fired.
C7_WriteOnEveryObservation ==
    \A id \in SnapIds :
        (Observed(id).success /\ Passed(id) /\ id \notin storeErr) =>
            /\ alerts[id].last_vacancy_count = Observed(id).data.vacancy
            /\ Cardinality(CycleRows(id)) = 1
            /\ \A n \in CycleRows(id) :
                  /\ history[n].vacancy_count = Observed(id).data.vacancy
                  /\ history[n].waitlist_count = Observed(id).data.waitlist

\* A watch loaded with an open count is written with an open count again: the
\* rule does not fire and the row is there all the same.
C7_Witness ==
    \E id \in SnapIds :
        /\ Observed(id).success
        /\ Passed(id)
        /\ Loaded(id).last_vacancy_count > 0
        /\ Observed(id).data.vacancy = Loaded(id).last_vacancy_count
        /\ attempts[id] = 0
        /\ Cardinality(CycleRows(id)) = 1

\* The send for alert id was attempted, has completed and was not delivered.
SendFailed(id) == attempts[id] >= 1 /\ delivered[id] = 0 /\ ~Sending(id)

\* C8: when the send for a watch fails, the last_vacancy_count written for it
\* in the cycle is kept (it equals the observed value), no second send is
\* attempted for it in the cycle, and the cycle continues with the remaining
\* watches and groups (an error raised later in the group loop, caught by
\* check_all_alerts, is the one thing that ends it early).
C8_FailedSendKeepsWrite ==
    \A id \in SnapIds :
        SendFailed(id) =>
            /\ alerts[id].last_vacancy_count = Observed(id).data.vacancy
            /\ attempts[id] = 1
            /\ Cardinality(CycleRows(id)) = 1
            /\ pc \in {"alert", "send", "pace", "group", "after_cycle", "caught"}
            /\ (pc = "after_cycle" /\ running) =>
                  \A g \in 1..Len(groups) :
                      /\ obs[groups[g]].calls = 1
                      /\ obs[groups[g]].success => GroupWritten(g)

\* A send failed for one watch and a watch after it in the cycle was written.
C8_Witness ==
    \E id, later \in SnapIds :
        /\ SendFailed(id)
        /\ later # id
        /\ Written(later)
        /\ history[CHOOSE n \in CycleRows(later) : TRUE].checked_at
              > history[CHOOSE n \in CycleRows(id) : TRUE].checked_at

(***************************************************************************)
(* C9: the notification_sent flag                                          *)
(***************************************************************************)
\* C9: a history row of the cycle has notification_sent = TRUE only if the
\* notification for it was sent successfully: a failed send leaves the row's
\* flag FALSE, and a row for which no send was attempted is never marked.
C9_MarkedOnlyIfDelivered ==
    \A id \in SnapIds : \A n \in CycleRows(id) :
        history[n].notification_sent => delivered[id] >= 1

\* The send for a watch failed and the row written for it in the cycle is
\* marked all the same.
C9_Witness ==
    \E id \in SnapIds :
        /\ SendFailed(id)
        /\ \E n \in CycleRows(id) : history[n].notification_sent

(***************************************************************************)
(* C10: a reopened section is eventually notified                          *)
(***************************************************************************)
\* The program with one owner at the front end, and run_forever as one task
\* of the event loop: a step of it that stays possible is eventually taken.
LiveOwners == {1}

LiveNext == Checker \/ FrontEndFor(LiveOwners) \/ Stop

FairSpec == Init /\ [][LiveNext]_vars /\ WF_vars(Checker)

\* Alert id is active, its owner is registered, active and not paused, and its
\* stored count is 0.
Waiting(id) ==
    /\ id \in 1..Len(alerts)
    /\ alerts[id].is_active
    /\ alerts[id].telegram_id \in DOMAIN users
    /\ users[alerts[id].telegram_id].is_active
    /\ ~users[alerts[id].telegram_id].is_paused
    /\ alerts[id].last_vacancy_count = 0
    /\ running

\* The watch's stored count is still 0 and one of the conditions under which
\* the send is due has gone: the checker was stopped, the watch or its owner
\* was deactivated or paused, a fetch of its group failed or saw no seat, the
\* store failed on the list or on the watch, the cycle caught an unexpected
\* error, or the tables reached the bound MaxRows of the model.
Released(id) ==
    /\ alerts[id].last_vacancy_count = 0
    /\ \/ ~running
       \/ ~alerts[id].is_active
       \/ ~users[alerts[id].telegram_id].is_active
       \/ users[alerts[id].telegram_id].is_paused
       \/ LET k == KeyOf(alerts[id])
          IN  obs[k].calls >= 1 /\ (~obs[k].success \/ obs[k].data.vacancy = 0)
       \/ id \in storeErr
       \/ pc = "after_cycle" /\ snapshot = <<>>
       \/ pc = "caught"
       \/ Len(alerts) + Len(history) + Cardinality(ActiveIds(users, alerts))
             > MaxRows

\* C10: if a watch is active, its owner not paused and its stored count 0, and
\* from then on every fetch of its group succeeds with vacancy > 0 while the
\* checker is not stopped, a send for the watch is eventually attempted.
C10_EventuallyNotified ==
    \A id \in AlertIds :
        Waiting(id) ~> (attempts[id] >= 1 \/ (id \in 1..Len(alerts) /\ Released(id)))

\* A watch that an earlier check left at 0 is loaded at 0 by a later cycle,
\* which sees the section open and attempts the send.
C10_Witness ==
    \E id \in SnapIds :
        /\ attempts[id] = 1
        /\ Loaded(id).last_vacancy_count = 0
        /\ startChecked[id] # NoTimestamp
        /\ running

(***************************************************************************)
(* C11, C12: run_forever and an error inside a cycle                       *)
(***************************************************************************)
\* check_all_alerts has ended, by its return or through its except.
CycleEnded == pc \in {"after_cycle", "caught"}

\* C11: run_forever never exits because of an error raised inside a cycle:
\* it is at its end only when running is false, and as long as running is
\* true, after any cycle, completed or cut short by an error, the loop comes
\* back to its test and another cycle begins.
C11_LoopSurvivesErrors ==
    /\ [](pc = "done" => ~running)
    /\ (CycleEnded /\ running) ~> (pc = "loop" \/ ~running)
    /\ (pc = "loop" /\ running) ~> (pc \in {"group", "after_cycle"})

\* A cycle wrote the watch of its first group and caught an error at its
\* second group, with the checker still running.
C11_Witness ==
    /\ pc = "caught"
    /\ running
    /\ gi = 2
    /\ \E id \in SnapIds : Written(id)

\* C12: when a cycle hits an unexpected error outside the per-watch handler,
\* the next sleep of the scheduler is the fixed backoff sleep, not the normal
\* CHECK_INTERVAL sleep (pc "idle").
C12_BackoffAfterError ==
    [][(pc = "caught" /\ pc' # pc) => pc' \notin {"idle", "loop"}]_vars

\* A cycle has caught an error raised by a step of its group loop.
C12_Witness == pc = "caught" /\ running /\ gi = 1 /\ Len(snapshot) >= 1

(***************************************************************************)
(* C13..C16: one cycle at a time, its snapshot, and stop()                 *)
(***************************************************************************)
\* The step of run_forever that calls check_all_alerts.
CycleBegins == pc = "loop" /\ pc' \in {"group", "after_cycle"}

\* No call of check_all_alerts is open: nothing is loaded, fetched or sent.
NoCycleOpen ==
    /\ snapshot = <<>>
    /\ groups = <<>>
    /\ \A k \in Keys : obs[k].calls = 0
    /\ \A id \in AlertIds : attempts[id] = 0
    /\ storeErr = {}

\* C13: at most one cycle runs at a time: a cycle begins only when the
\* previous call of check_all_alerts has returned, and so the count a cycle
\* loaded for a watch is the stored count until that cycle itself writes it,
\* after which the stored count is the one it observed.
C13_OneCycleAtATime ==
    /\ [](\A id \in SnapIds :
             alerts[id].last_vacancy_count =
                 IF Written(id) THEN Observed(id).data.vacancy
                 ELSE Loaded(id).last_vacancy_count)
    /\ [][CycleBegins => NoCycleOpen]_vars

\* A later cycle has loaded a watch that an earlier cycle notified, and has
\* not written it yet.
C13_Witness ==
    /\ pc = "group"
    /\ \E id \in SnapIds :
          /\ phase[id] = "notified"
          /\ Loaded(id).last_vacancy_count > 0
          /\ ~Written(id)

\* Alert id is active and its owner is registered, active and not paused.
Eligible(id) ==
    /\ alerts[id].is_active
    /\ alerts[id].telegram_id \in DOMAIN users
    /\ users[alerts[id].telegram_id].is_active
    /\ ~users[alerts[id].telegram_id].is_paused

\* A step of the cycle changes no alert outside its list.
WritesOnlyLoaded ==
    pc \in {"group", "alert"} =>
        (\A id \in 1..Len(alerts) : alerts'[id] # alerts[id] => id \in SnapIds)

\* The list a cycle loads holds only eligible alerts.
LoadsOnlyEligible ==
    CycleBegins => (\A n \in 1..Len(snapshot') : Eligible(snapshot'[n].id))

\* C14: the watches a cycle processes are those of the list loaded at its
\* start: the list holds only watches eligible at that moment; a watch
\* created during the cycle is not fetched for, written or notified by it; a
\* loaded watch deactivated during the cycle is still written; a cycle that
\* ends unstopped has passed every loaded watch, a stopped one a prefix of
\* its groups.
C14_SnapshotIsTheWorkList ==
    /\ [](\A id \in AlertIds : attempts[id] > 0 => id \in SnapIds)
    /\ [](\A k \in Keys :
             obs[k].calls > 0 => \E g \in 1..Len(groups) : groups[g] = k)
    /\ [](\A id \in SnapIds :
             (Passed(id) /\ Observed(id).success /\ id \notin storeErr)
                 => Written(id))
    /\ []((pc = "after_cycle" /\ running) => \A id \in SnapIds : Passed(id))
    /\ [](pc = "after_cycle" =>
             \A g \in 1..Len(groups) : obs[groups[g]].calls = 1 <=> g < gi)
    /\ [][WritesOnlyLoaded]_vars
    /\ [][LoadsOnlyEligible]_vars

\* A cycle has written a loaded watch that is inactive in the store, while the
\* store holds an active watch created after the cycle loaded its list.
C14_Witness ==
    /\ pc \in {"alert", "pace", "after_cycle"}
    /\ \E id \in SnapIds : Written(id) /\ ~alerts[id].is_active
    /\ \E id \in 1..Len(alerts) :
          id \notin SnapIds /\ alerts[id].is_active /\ attempts[id] = 0

\* A step that calls get_index_vacancy for a group of the cycle.
FetchStarts == \E k \in Keys : obs'[k].calls > obs[k].calls

\* stop() has been called after run_forever set running.
Stopped == ~running /\ pc # "start"

\* C15: after stop() has been called while run_forever is active, no fetch
\* for a further group is started in the current cycle, no further cycle is
\* started, and running stays false.
C15_NoWorkAfterStop ==
    [][Stopped => (~FetchStarts /\ ~CycleBegins /\ ~running')]_vars

\* The checker was stopped during a cycle, which ended at the break with a
\* group left unfetched.
C15_Witness ==
    /\ ~running
    /\ pc = "after_cycle"
    /\ gi = 2
    /\ gi <= Len(groups)
    /\ obs[groups[1]].calls = 1
    /\ obs[groups[2]].calls = 0

\* C16: a stop never leaves a group half-updated: once a group's fetch has
\* succeeded the alert loop runs to its end whatever running is, so when the
\* cycle ends every watch of every successfully fetched group has been
\* written (unless its own update raised) and evaluated by the rule.
C16_StopKeepsGroupWhole ==
    /\ [](pc = "after_cycle" =>
             \A g \in 1..Len(groups) :
                 obs[groups[g]].success =>
                     /\ GroupWritten(g)
                     /\ \A id \in SnapIds :
                           (KeyOf(Loaded(id)) = groups[g] /\ Written(id)) =>
                               attempts[id] =
                                   IF Loaded(id).last_vacancy_count = 0
                                      /\ obs[groups[g]].data.vacancy > 0
                                   THEN 1 ELSE 0)
    /\ [][(pc = "alert" /\ wi <= Len(CurrentGroup))
             => pc' \in {"alert", "send"}]_vars

\* The checker was stopped while a send of a two-watch group was awaited, and
\* both watches of the group are written.
C16_Witness ==
    /\ ~running
    /\ pc = "alert"
    /\ Len(CurrentGroup) = 2
    /\ wi > Len(CurrentGroup)
    /\ attempts[CurrentGroup[1].id] = 1
    /\ Written(CurrentGroup[1].id)
    /\ Written(CurrentGroup[2].id)

(***************************************************************************)
(* C17..C19: stop_user and the 'stopped' reason                            *)
(***************************************************************************)
AlertsOf(al, o) == {id \in 1..Len(al) : al[id].telegram_id = o}

\* get_all_active_alerts would return a watch of owner o.
Listed(us, al, o) == \E id \in ActiveIds(us, al) : al[id].telegram_id = o

\* The step in which stop_user commits for owner o.
StopStep(o) ==
    /\ o \in DOMAIN users
    /\ users'[o].pause_reason = "stopped"
    /\ (users'[o] # users[o] \/ alerts' # alerts)

\* The step in which add_alert inserts a watch of owner o.
CreatedFor(o) ==
    /\ Len(alerts') > Len(alerts)
    /\ alerts'[Len(alerts')].telegram_id = o

StopUnlists == \A o \in Owners : StopStep(o) => ~Listed(users', alerts', o)

StaysUnlisted ==
    \A o \in Owners :
        (~Listed(users, alerts, o) /\ ~CreatedFor(o)) => ~Listed(users', alerts', o)

LoadsOnlyListed ==
    CycleBegins =>
        (\A n \in 1..Len(snapshot') : Listed(users, alerts, snapshot'[n].telegram_id))

\* C17: from the step in which stop_user completes for an owner, the list
\* get_all_active_alerts returns holds no watch of that owner, and this
\* lasts until a watch is created for the owner: every list a later cycle
\* loads is without the owner's watches.
C17_StoppedOwnerUnlisted ==
    /\ [][StopUnlists]_vars
    /\ [][StaysUnlisted]_vars
    /\ [][LoadsOnlyListed]_vars

\* A cycle has just loaded another owner's watch while an owner with a watch
\* is stopped.
C17_Witness ==
    /\ pc = "group"
    /\ gi = 1
    /\ Len(snapshot) >= 1
    /\ \E o \in DOMAIN users :
          /\ users[o].pause_reason = "stopped"
          /\ AlertsOf(alerts, o) # {}
          /\ \A n \in 1..Len(snapshot) : snapshot[n].telegram_id # o

StopDeactivates ==
    \A o \in Owners :
        StopStep(o) => (\A id \in AlertsOf(alerts, o) : ~alerts'[id].is_active)

\* C18: stop_user sets the owner to paused with reason 'stopped' and marks
\* every watch of the owner inactive in one step: in no reachable state does
\* an owner with reason 'stopped' have an active watch.
C18_StopIsAtomic ==
    /\ [](\A o \in DOMAIN users :
             users[o].pause_reason = "stopped" =>
                 /\ users[o].is_paused
                 /\ \A id \in AlertsOf(alerts, o) : ~alerts[id].is_active)
    /\ [][StopDeactivates]_vars

\* An owner with two watches is stopped and both are inactive.
C18_Witness ==
    \E o \in DOMAIN users :
        /\ users[o].pause_reason = "stopped"
        /\ Cardinality(AlertsOf(alerts, o)) = 2
        /\ \A id \in AlertsOf(alerts, o) : ~alerts[id].is_active

\* The step takes owner o out of the stopped state.
LiftsStopped(o) ==
    /\ o \in DOMAIN users
    /\ users[o].pause_reason = "stopped"
    /\ users'[o].pause_reason # "stopped"

LiftedOnlyByNewWatch == \A o \in Owners : LiftsStopped(o) => CreatedFor(o)

\* C19: the pause reason 'stopped' of an owner is lifted only in a step that
\* creates a new watch for that owner; a rejected duplicate add, the passage
\* of time and the scheduler's cycles leave the owner stopped.
C19_StoppedLiftedOnlyByNewWatch == [][LiftedOnlyByNewWatch]_vars

\* A stopped owner holds a watch, so that adding the same section again is
\* rejected as a duplicate.
C19_Witness ==
    \E o \in DOMAIN users :
        /\ users[o].pause_reason = "stopped"
        /\ users[o].is_paused
        /\ \E id \in AlertsOf(alerts, o) : alerts[id].index_number = 1

ManualPending(u) ==
    u.is_paused /\ u.pause_reason = "manual" /\ u.paused_until = "pending"

\* The pause has run out and no resume has written the row since.
ManualElapsed(u) ==
    u.is_paused /\ u.pause_reason = "manual" /\ Elapsed(u.paused_until)

\* The ids of the rows of a list read from the store.
ListIds(list) == {list[n].id : n \in 1..Len(list)}

ActiveOf(al, o) == {id \in AlertsOf(al, o) : al[id].is_active}

\* What both readers make of owner o's pause in the store us, al.
ReadByExpiry(us, al, o) ==
    /\ ManualPending(us[o]) =>
          /\ CheckUserPauseStatus(us, o).is_paused
          /\ \A list \in GetAllActiveAlerts(us, al) :
                ListIds(list) \cap AlertsOf(al, o) = {}
    /\ ManualElapsed(us[o]) =>
          /\ ~CheckUserPauseStatus(us, o).is_paused
          /\ \A list \in GetAllActiveAlerts(us, al) :
                ActiveOf(al, o) \subseteq ListIds(list)

\* The list a read has just put into snapshot follows the same rule.
LoadReadsByExpiry ==
    snapshot' # snapshot =>
        \A o \in DOMAIN users :
            /\ ManualPending(users[o]) =>
                  ListIds(snapshot') \cap AlertsOf(alerts, o) = {}
            /\ ManualElapsed(users[o]) =>
                  ActiveOf(alerts, o) \subseteq ListIds(snapshot')

TupleOf(a) ==
    <<a.telegram_id, a.course_code, a.index_number, a.academic_year, a.semester>>

UniqueTuples ==
    \A a, b \in 1..Len(alerts) : a # b => TupleOf(alerts[a]) # TupleOf(alerts[b])

\* add_alert for a tuple the table holds returns None and the table as it was.
DuplicateRejected ==
    \A o \in Owners, c \in Courses, i \in Indexes :
        (\E id \in 1..Len(alerts) :
            TupleOf(alerts[id]) = <<o, c, i, DefaultAcademicYear, DefaultSemester>>)
        => AddAlert(users, alerts, o, c, i) = [alerts |-> alerts, id |-> 0]

\* A step that adds a row adds one row, of a new tuple, and touches no other.
InsertsOnlyNewTuple ==
    Len(alerts') > Len(alerts) =>
        /\ Len(alerts') = Len(alerts) + 1
        /\ \A id \in 1..Len(alerts) :
              /\ TupleOf(alerts[id]) # TupleOf(alerts'[Len(alerts')])
              /\ TupleOf(alerts'[id]) = TupleOf(alerts[id])
              /\ alerts'[id].is_active = alerts[id].is_active

\* C21: no two watches, active or inactive, share the tuple (telegram_id,
\* course_code, index_number, academic_year, semester); add_alert for a tuple
\* that exists returns None and leaves the table as it was, and a step that
\* inserts a watch inserts one of a new tuple without reactivating a row.
C21_TupleUnique ==
    /\ [](UniqueTuples /\ DuplicateRejected)
    /\ [][InsertsOnlyNewTuple]_vars

\* The table is full of watches, one of them inactive, and two owners watch
\* the same section: every further add of an owner's own tuple is a duplicate.
C21_Witness ==
    /\ Len(alerts) = MaxAlerts
    /\ \E a, b \in 1..Len(alerts) :
          /\ alerts[a].telegram_id # alerts[b].telegram_id
          /\ alerts[a].index_number = alerts[b].index_number
          /\ ~alerts[a].is_active

\* After the step that takes owner o out of the stopped state (the /add the
\* owner completed), o is not paused and has a watch the next cycle loads.
AddAfterStopWatches ==
    \A o \in Owners :
        LiftsStopped(o) => (~users'[o].is_paused /\ Listed(users', alerts', o))

\* C22: after an owner has stopped, completing /add for any (course, section),
\* one watched before the stop included, leaves the owner not paused and with
\* an active watch that the next cycle loads.
C22_AddAfterStopWatches == [][AddAfterStopWatches]_vars

\* A stopped owner who watched every section before stopping, while the
\* checker sleeps between two cycles.
C22_Witness ==
    /\ pc = "idle"
    /\ \E o \in DOMAIN users :
          /\ users[o].pause_reason = "stopped"
          /\ \A i \in Indexes : \E id \in AlertsOf(alerts, o) :
                alerts[id].index_number = i

\* The step in which the scheduler's update_alert_check commits for alert id.
SchedulerWrites(id) ==
    /\ pc = "alert"
    /\ Len(history') > Len(history)
    /\ history'[Len(history')].alert_id = id

\* The step in which the scheduler starts a notification for alert id.
SchedulerSends(id) == attempts'[id] > attempts[id]

OwnerStopped(id) == users[alerts[id].telegram_id].pause_reason = "stopped"

StoppedOwnerUntouched ==
    \A id \in 1..Len(alerts) :
        (SchedulerWrites(id) \/ SchedulerSends(id)) => ~OwnerStopped(id)

ActsOnSnapshotOnly ==
    \A id \in 1..Len(alerts) :
        (SchedulerWrites(id) \/ SchedulerSends(id)) => id \in SnapIds

LoadsNoStopped ==
    CycleBegins =>
        \A n \in 1..Len(snapshot') :
            users[snapshot'[n].telegram_id].pause_reason # "stopped"

SchedulerStep ==
    <<running, pc, loopVars, cycleLog, runLog>>' # <<running, pc, loopVars, cycleLog, runLog>>

KeepsActiveFlags ==
    /\ Len(alerts') = Len(alerts)
    /\ \A id \in 1..Len(alerts) : alerts'[id].is_active = alerts[id].is_active

SchedulerKeepsActiveFlags == SchedulerStep => KeepsActiveFlags

\* A flag that goes from true to false does so in remove_alert, which changes
\* that one row, or in stop_user of the watch's owner.
DeactivatedByOwner ==
    \A id \in 1..Len(alerts) :
        (alerts[id].is_active /\ ~alerts'[id].is_active) =>
            /\ ~SchedulerStep
            /\ \/ StopStep(alerts[id].telegram_id)
               \/ \A other \in 1..Len(alerts) :
                     other # id => alerts'[other] = alerts[other]

\* C24: no step of the scheduler changes a watch's is_active, whatever the
\* fetch returned (index not found included); a watch is deactivated only by
\* remove_alert or stop_user.
C24_SchedulerKeepsActive ==
    /\ [][SchedulerKeepsActiveFlags]_vars
    /\ [][DeactivatedByOwner]_vars

\* A cycle has ended in which the fetch of one group failed and another
\* group's watch was written; every watch of the snapshot is still active.
C24_Witness ==
    /\ pc = "after_cycle"
    /\ \E id, other \in SnapIds :
          /\ FetchFailed(KeyOf(Loaded(id)))
          /\ Written(other)
          /\ alerts[id].is_active
          /\ alerts[other].is_active

\* No step deletes a row or changes the identifying tuple of one.
RowsStay ==
    /\ Len(alerts') >= Len(alerts)
    /\ \A id \in 1..Len(alerts) : TupleOf(alerts'[id]) = TupleOf(alerts[id])

\* A step that deactivates a row changes nothing else of that row.
DeactivationKeepsRow ==
    \A id \in 1..Len(alerts) :
        (alerts[id].is_active /\ ~alerts'[id].is_active) =>
            alerts'[id] = [alerts[id] EXCEPT !.is_active = FALSE]

\* remove_alert(alert_id, telegram_id) on the current table: the row with that
\* id and that owner is deactivated, every other row is returned as it is.
RemoveMatchesOnly ==
    \A o \in Owners, id \in AlertIds :
        LET r == RemoveAlertRow(alerts, id, o)
        IN  /\ Len(r) = Len(alerts)
            /\ \A n \in 1..Len(alerts) :
                  r[n] = IF n = id /\ alerts[n].telegram_id = o
                         THEN [alerts[n] EXCEPT !.is_active = FALSE]
                         ELSE alerts[n]

\* stop_user(telegram_id) on the current table: the owner's rows are
\* deactivated, every other row is returned as it is.
StopMatchesOnly ==
    \A o \in Owners :
        LET r == StopUserAlerts(alerts, o)
        IN  /\ Len(r) = Len(alerts)
            /\ \A n \in 1..Len(alerts) :
                  r[n] = IF alerts[n].telegram_id = o
                         THEN [alerts[n] EXCEPT !.is_active = FALSE]
                         ELSE alerts[n]

ClientCalled == call.fn \in {"get_course_vacancies", "get_index_vacancy"}

InWindow == 8 <= current_hour /\ current_hour < 22

\* C26: get_course_vacancies issues its request only when the Singapore hour
\* h has 8 <= h < 22; at any other hour it returns the time_restriction
\* failure and issues no request; whatever the upstream would have answered
\* and whatever document it serves, the hour alone decides.
C26_WindowGatesRequest ==
    ClientCalled =>
        /\ InWindow => (Len(posts) = 1 /\ result.error # "time_restriction")
        /\ ~InWindow =>
              /\ posts = <<>>
              /\ ~result.success
              /\ result.error = "time_restriction"

\* A call made during hour 22, while the upstream had a table to serve, was
\* refused without a request; hour 21 is still inside the window.
C26_Witness ==
    /\ call.fn = "get_course_vacancies"
    /\ current_hour = ServiceCloseHour
    /\ html.table
    /\ posts = <<>>
    /\ result.error = "time_restriction"

\* What the upstream answered to the call's request, read from the log.
Answered == <<posts[1].outcome, posts[1].status_code>>

\* What get_course_vacancies returned inside the last call.
CourseResult ==
    IF posts = <<>> THEN Failure("time_restriction", 0)
    ELSE GetCourseVacancies(call.course_code, current_hour, Upstream(Answered, html))

\* Positions of the sections whose index is exactly the requested text.
Matches(list) == {n \in 1..Len(list) : list[n].index = call.index_number}

\* C27: get_index_vacancy(course, index) returns success with the first
\* section of get_course_vacancies(course) whose index equals the requested
\* index exactly; when the course fetch succeeds and no section matches (the
\* list may be empty) it returns the index_not_found failure; when the course
\* fetch fails it returns that failure.
C27_FirstExactMatch ==
    call.fn = "get_index_vacancy" =>
        LET r == CourseResult
        IN  /\ ~r.success =>
                  /\ ~result.success
                  /\ result.error = r.error
                  /\ result.status_code = r.status_code
            /\ (r.success /\ Matches(r.data) = {}) =>
                  /\ ~result.success
                  /\ result.error = "index_not_found"
            /\ (r.success /\ Matches(r.data) # {}) =>
                  /\ result.success
                  /\ \E n \in Matches(r.data) :
                        /\ \A m \in Matches(r.data) : n <= m
                        /\ result.data = r.data[n]

\* The document lists the requested index twice with different vacancies and
\* the call returned the first of the two sections.
C27_Witness ==
    /\ call.fn = "get_index_vacancy"
    /\ result.success
    /\ \E m, n \in Matches(CourseResult.data) :
          /\ m < n
          /\ CourseResult.data[m].vacancy # CourseResult.data[n].vacancy
          /\ result.data = CourseResult.data[m]

\* Why the last call could not return the sections, or "none".
Cause ==
    IF ~InWindow THEN "closed_window"
    ELSE IF posts[1].outcome # "response" THEN posts[1].outcome
    ELSE IF posts[1].status_code # HttpOk THEN "non_200"
    ELSE IF ~html.scans THEN "parser_none"
    ELSE IF call.fn = "get_index_vacancy" /\ Matches(CourseResult.data) = {}
    THEN "no_match"
    ELSE "none"

Causes == {"closed_window", "timeout", "connection_error", "request_error",
           "exception", "non_200", "parser_none", "no_match"}

\* The error tag the client gives each cause.
TagOf(cause) ==
    CASE cause = "closed_window" -> "time_restriction"
      [] cause = "timeout" -> "timeout"
      [] cause = "connection_error" -> "connection_error"
      [] cause = "request_error" -> "request_error"
      [] cause = "exception" -> "unknown_error"
      [] cause = "non_200" -> "http_error"
      [] cause = "parser_none" -> "parse_error"
      [] cause = "no_match" -> "index_not_found"

\* C28: get_course_vacancies and get_index_vacancy return a result for every
\* failure instead of raising: closed window, non-200 status, timeout,
\* connection error, parser returning None and any other exception each give
\* success = false with an error tag of their own, and a non-200 result
\* carries the status code; without a failure the call succeeds.
C28_FailuresAreTaggedResults ==
    /\ \A c, d \in Causes : c # d => TagOf(c) # TagOf(d)
    /\ ClientCalled =>
          /\ Cause \in Causes \cup {"none"}
          /\ Cause = "none" => (result.success /\ result.error = NULL)
          /\ Cause # "none" => (~result.success /\ result.error = TagOf(Cause))
          /\ Cause = "non_200" => result.status_code = posts[1].status_code
          /\ Cause # "non_200" => result.status_code = 0

\* The request timed out while the upstream had a table to serve, and the
\* caller got the timeout failure.
C28_Witness ==
    /\ ClientCalled
    /\ html.table
    /\ Cause = "timeout"
    /\ ~result.success
    /\ result.error = "timeout"

\* The document served can be scanned and has no table.
NoTable == html.scans /\ ~html.table

\* C29: for every document without a table parse_vacancy_html returns the
\* empty list, not None, so that a get_course_vacancies call that receives
\* such a document with status 200 reports success with zero sections and
\* not a parse error.
C29_NoTableIsEmptySuccess ==
    NoTable =>
        /\ ParseVacancyHtml(html) = Parsed(<<>>)
        /\ (call.fn = "get_course_vacancies" /\ InWindow
              /\ Answered = <<"response", HttpOk>>) =>
                 /\ result.success
                 /\ result.error # "parse_error"
                 /\ result.data = <<>>

\* get_course_vacancies received a document without a table and returned
\* success with no sections.
C29_Witness ==
    /\ NoTable
    /\ call.fn = "get_course_vacancies"
    /\ posts # <<>>
    /\ posts[1].status_code = HttpOk
    /\ result.success
    /\ Len(result.data) = 0

ParserCalled == call.fn = "parse_vacancy_html"

\* A row with at least eight cells and a non-empty leading cell.
HasLead(cells) == Len(cells) >= 8 /\ cells[1] # <<>>

\* The same, the leading cell not being the literal text &nbsp; either.
HasIndexLead(cells) == HasLead(cells) /\ cells[1] # Nbsp

\* The entries are the rows `rows`, one each and in their order.
ListsRows(list, rows) ==
    /\ Len(list) = Len(rows)
    /\ \A n \in 1..Len(rows) :
          /\ list[n].index = rows[n][1]
          /\ list[n].vacancy = ParseNumber(rows[n][2])
          /\ list[n].waitlist = ParseNumber(rows[n][3])

\* C30 as stated: every row of the table with at least eight cells and a
\* non-empty leading cell produces exactly one section, the sections are in
\* the order of their rows, and rows with fewer than eight cells produce
\* nothing and no error.
C30_EveryLeadRowIsASection ==
    (ParserCalled /\ html.scans /\ html.table) =>
        /\ ~indexes.is_none
        /\ ListsRows(indexes.list, SelectSeq(html.rows, HasLead))

\* C30 amended: the first row of the table is taken for the column headings
\* and skipped; every later row with at least eight cells whose leading cell
\* is neither empty nor the literal text &nbsp; produces exactly one section,
\* the sections are in the order of their rows, and rows with fewer than
\* eight cells produce nothing and no error.
C30_LeadRowsAfterHeaderAreSections ==
    (ParserCalled /\ html.scans /\ html.table) =>
        /\ ~indexes.is_none
        /\ ListsRows(indexes.list,
                     SelectSeq(SubSeq(html.rows, 2, Len(html.rows)), HasIndexLead))

\* A table whose three rows all open a section was parsed: the first row was
\* dropped and the other two came out in their order.
C30_Witness ==
    /\ ParserCalled
    /\ html.table
    /\ Len(html.rows) = MaxDocRows
    /\ \A n \in 1..Len(html.rows) : HasIndexLead(html.rows[n])
    /\ html.rows[2][1] # html.rows[3][1]
    /\ Len(indexes.list) = 2
    /\ indexes.list[1].index = html.rows[2][1]
    /\ indexes.list[2].index = html.rows[3][1]

(***************************************************************************)
(* C31..C33: meetings and numeric cells of the parser                      *)
(***************************************************************************)
\* The rows the parser looks at: those after the column headings that have at
\* least eight cells.
Wide(cells) == Len(cells) >= 8

Body == SelectSeq(SubSeq(html.rows, 2, Len(html.rows)), Wide)

\* The positions in Body of the rows that open a section, and the k-th of them.
Heads == {n \in 1..Len(Body) : HasIndexLead(Body[n])}

HeadOf(k) == CHOOSE n \in Heads : Cardinality({m \in Heads : m <= n}) = k

\* The rows of section k: its header row and the rows up to the next header.
Span(k) ==
    {n \in 1..Len(Body) :
        n >= HeadOf(k) /\ \A m \in Heads : m > HeadOf(k) => n < m}

Typed(cells) == cells[4] # <<>>

\* The meetings of the rows of Body at the positions ns, in document order.
MeetingsAt(ns) ==
    LET F[n \in 0..Len(Body)] ==
            IF n = 0 THEN <<>>
            ELSE IF n \in ns THEN Append(F[n - 1], ClassSession(Body[n]))
            ELSE F[n - 1]
    IN  F[Len(Body)]

\* C31 as stated: every continuation row (at least eight cells, empty leading
\* cell) that follows a section's header row adds exactly one meeting entry to
\* the most recently opened section and to no other section, and each
\* section's meetings are in document order.  (The header row itself gives a
\* meeting when its type cell is filled.)
C31_EveryContinuationRowIsAMeeting ==
    (ParserCalled /\ html.scans /\ html.table) =>
        /\ Len(indexes.list) = Cardinality(Heads)
        /\ \A k \in 1..Len(indexes.list) :
              indexes.list[k].classes =
                  MeetingsAt({n \in Span(k) : n # HeadOf(k) \/ Typed(Body[n])})

\* C31 amended: every row of a section (its header row, and each later row
\* with at least eight cells up to the next header row) whose class-type cell
\* is not empty adds exactly one meeting entry to that section, the most
\* recently opened one, and to no other; a row whose class-type cell is empty
\* adds none; each section's meetings are in document order.
C31_TypedRowsAreMeetings ==
    (ParserCalled /\ html.scans /\ html.table) =>
        /\ Len(indexes.list) = Cardinality(Heads)
        /\ \A k \in 1..Len(indexes.list) :
              indexes.list[k].classes = MeetingsAt({n \in Span(k) : Typed(Body[n])})

\* Two sections were opened and a continuation row followed the second: its
\* meeting is the second section's second one and the first section has only
\* its own.
C31_Witness ==
    /\ ParserCalled
    /\ html.table
    /\ Len(html.rows) = MaxParseRows
    /\ HasIndexLead(html.rows[2])
    /\ HasIndexLead(html.rows[3])
    /\ html.rows[4][1] = <<>>
    /\ Typed(html.rows[4])
    /\ Len(indexes.list) = 2
    /\ Len(indexes.list[1].classes) = 1
    /\ Len(indexes.list[2].classes) = 2
    /\ indexes.list[2].classes[2] = ClassSession(html.rows[4])
    /\ indexes.list[2].classes[1].type # indexes.list[2].classes[2].type

\* A text that reads as a number: decimal digits, with or without a sign.
SignChars == {"+", "-"}

DigitChars == {Digits[d] : d \in 1..Len(Digits)}

ReadsAsNumber(t) ==
    \E from \in 1..2 :
        /\ from <= Len(t)
        /\ from = 2 => t[1] \in SignChars
        /\ \A n \in from..Len(t) : t[n] \in DigitChars

\* The value the entry opened by the row at position n of Body got from the
\* cell c of that row is 0.
ZeroFrom(n, c) ==
    LET k == Cardinality({m \in Heads : m <= n})
    IN  IF c = 2 THEN indexes.list[k].vacancy = 0 ELSE indexes.list[k].waitlist = 0

\* C32: for every vacancy or waitlist cell whose text is not a number (empty, a
\* dash, the placeholder &nbsp;, N/A, or any other non-numeric text), the
\* parsed value is exactly 0 and the row is still parsed without error: the
\* parser returns a list and the row's section is in it.
C32_NonNumericCellIsZero ==
    (ParserCalled /\ html.scans /\ html.table) =>
        /\ ~indexes.is_none
        /\ Len(indexes.list) = Cardinality(Heads)
        /\ \A n \in Heads : \A c \in {2, 3} :
              ~ReadsAsNumber(Body[n][c]) => ZeroFrom(n, c)

\* A section row whose vacancy cell holds a letter among digits and whose
\* waitlist cell holds N/A was parsed: one section, both values 0.
C32_Witness ==
    /\ ParserCalled
    /\ html.table
    /\ Len(html.rows) = 2
    /\ html.rows[2][2] = <<"7", "x">>
    /\ html.rows[2][3] = NotApplicable
    /\ ~indexes.is_none
    /\ Len(indexes.list) = 1
    /\ indexes.list[1].vacancy = 0
    /\ indexes.list[1].waitlist = 0

\* C33: for every cell text, the vacancy and waitlist values of a parsed
\* section are non-negative integers (and so is every last_vacancy_count the
\* scheduler writes from them).
C33_ParsedValuesNonNegative ==
    (ParserCalled /\ ~indexes.is_none) =>
        \A k \in 1..Len(indexes.list) :
            /\ indexes.list[k].vacancy \in Nat
            /\ indexes.list[k].waitlist \in Nat

\* A section row whose vacancy cell is a minus sign followed by digits was
\* parsed into a section.
C33_Witness ==
    /\ ParserCalled
    /\ html.table
    /\ Len(html.rows) = 2
    /\ html.rows[2][2] = <<"-", "7">>
    /\ Len(indexes.list) = 1

(***************************************************************************)
(* C34: the single-check path against a cycle over one watch               *)
(***************************************************************************)
\* The cycle loaded one watch and its group loop is past the group: the fetch
\* was made and the watch, if the fetch succeeded, was handled.
SingleWatchCycleDone == Len(snapshot) = 1 /\ (gi > 1 \/ pc = "pace")

\* The store as the cycle found it, as far as the watch id goes: the cycle
\* writes before its first await, so nothing else changed the row before.
AlertsAtStart(id) ==
    [alerts EXCEPT ![id].last_vacancy_count = Loaded(id).last_vacancy_count,
                   ![id].last_checked = startChecked[id]]

HistoryAtStart == SubSeq(history, 1, histAtStart)

IsRowOf(id, row) == row.alert_id = id

HistoryOf(hist, id) == SelectSeq(hist, LAMBDA row : IsRowOf(id, row))

\* What check_alert gives for the watch id from the store the cycle started
\* from, for the cycle's fetch result and update outcome.
SingleCheck(id, mark_ok) ==
    CheckAlert(AlertsAtStart(id), HistoryAtStart, Loaded(id), Observed(id),
               id \notin storeErr, mark_ok)

\* C34: for a single watch and every fetch outcome, check_alert and a
\* check_all_alerts cycle whose snapshot contains only that watch produce the
\* same store state for the watch (last_vacancy_count, last_checked, its
\* history rows with their notification_sent flags) and the same notification
\* decision, for the same outcomes of the store calls.
C34_SingleCheckMatchesCycle ==
    SingleWatchCycleDone =>
        \E mark_ok \in BOOLEAN :
            LET id == snapshot[1].id
                single == SingleCheck(id, mark_ok)
            IN  /\ alerts[id].last_vacancy_count
                      = single.alerts[id].last_vacancy_count
                /\ alerts[id].last_checked = single.alerts[id].last_checked
                /\ HistoryOf(history, id) = HistoryOf(single.history, id)
                /\ attempts[id] = single.sends

\* A cycle over one watch loaded at 0 saw its section open, wrote the watch,
\* sent the notification and marked the row.
C34_Witness ==
    /\ SingleWatchCycleDone
    /\ Observed(snapshot[1].id).success
    /\ Loaded(snapshot[1].id).last_vacancy_count = 0
    /\ Observed(snapshot[1].id).data.vacancy > 0
    /\ attempts[snapshot[1].id] = 1
    /\ \E n \in CycleRows(snapshot[1].id) : history[n].notification_sent
    /\ histAtStart > 0

(***************************************************************************)
(* C35..C36: the stored count and the history rows                         *)
(***************************************************************************)
\* The stored count of every watch is the vacancy of its latest history row,
\* or the column default 0 when it has none.
CountIsLatestRow ==
    \A id \in 1..Len(alerts) :
        alerts[id].last_vacancy_count =
            IF RowsOf(history, id) = {} THEN 0
            ELSE history[LatestRow(history, id)].vacancy_count

\* A step changes the count or the check time of a watch exactly when it
\* appends one history row for it, carrying the new count.
WrittenTogether ==
    \A id \in 1..Len(alerts) :
        LET touched == \/ alerts'[id].last_vacancy_count # alerts[id].last_vacancy_count
                       \/ alerts'[id].last_checked # alerts[id].last_checked
            added == RowsOf(history', id) \ RowsOf(history, id)
        IN  /\ touched <=> added # {}
            /\ added # {} =>
                  /\ added = {Len(history')}
                  /\ Len(history') = Len(history) + 1
                  /\ history'[Len(history')].vacancy_count
                        = alerts'[id].last_vacancy_count

\* C35: in every reachable store state, each watch's last_vacancy_count equals
\* the vacancy of the most recent history row of that watch, or 0 if the watch
\* has no history row; the count and the history row are always written
\* together, in one step.
C35_CountMatchesLatestRow == []CountIsLatestRow /\ [][WrittenTogether]_vars

\* A watch with two history rows of different vacancies, and a watch whose
\* creation-time check failed and that has no row yet.
C35_Witness ==
    /\ \E id \in 1..Len(alerts) : \E n, m \in RowsOf(history, id) :
          /\ n < m
          /\ history[n].vacancy_count # history[m].vacancy_count
          /\ alerts[id].last_vacancy_count = history[m].vacancy_count
    /\ \E id \in 1..Len(alerts) : RowsOf(history, id) = {}

\* The history rows a step marks as notified.
Marked ==
    {n \in 1..Len(history) :
        ~history[n].notification_sent /\ history'[n].notification_sent}

\* A step that marks a row is the end of the send awaited for the watch the
\* alert loop stands at, and the row is the one the cycle appended for that
\* watch: a row of this cycle, of that watch, the only one written for it since
\* the cycle loaded, carrying the cycle's observation.
MarksOwnRow ==
    Marked # {} =>
        /\ pc = "send"
        /\ Cardinality(Marked) = 1
        /\ Marked = CycleRows(CurrentAlert.id)
        /\ \A n \in Marked :
              /\ history[n].alert_id = CurrentAlert.id
              /\ n > histAtStart
              /\ history[n].vacancy_count = vacancy_info.vacancy
              /\ history[n].vacancy_count > 0

ErrorLeavesWatch(id) ==
    /\ alerts[id].last_vacancy_count = Loaded(id).last_vacancy_count
    /\ alerts[id].last_checked = startChecked[id]
    /\ CycleRows(id) = {}
    /\ attempts[id] = 0

\* Every other watch of the group that the loop has passed was written with
\* the observation and evaluated by the edge-trigger rule.
OthersHandled(id) ==
    \A other \in SnapIds :
        (/\ other # id
         /\ KeyOf(Loaded(other)) = KeyOf(Loaded(id))
         /\ Passed(other)
         /\ other \notin storeErr)
        => /\ Cardinality(CycleRows(other)) = 1
           /\ alerts[other].last_vacancy_count = Observed(id).data.vacancy
           /\ attempts[other] =
                 IF Loaded(other).last_vacancy_count = 0
                    /\ Observed(id).data.vacancy > 0
                 THEN 1 ELSE 0

\* The step in which an update raises moves the alert loop to the next watch
\* of the same group and changes nothing in the store.
ErrorStepGoesOn ==
    storeErr' \ storeErr # {} =>
        /\ pc' = "alert"
        /\ wi' = wi + 1
        /\ gi' = gi
        /\ UNCHANGED <<storeVars, snapshot, groups, attempts>>

\* With a store error behind it the cycle still ends by fetching every group,
\* unless the checker was stopped.
ErrorKeepsGroups ==
    (storeErr # {} /\ pc = "after_cycle" /\ running) =>
        \A g \in 1..Len(groups) : obs[groups[g]].calls = 1

\* C37: within a successfully fetched group, a store error while updating one
\* watch is confined to that watch: that watch gets no notification in this
\* cycle, every other watch of the group is still written and evaluated, and
\* the cycle goes on to the next group.
C37_StoreErrorConfined ==
    /\ [](\A id \in storeErr :
             /\ Observed(id).success
             /\ ErrorLeavesWatch(id)
             /\ OthersHandled(id))
    /\ []ErrorKeepsGroups
    /\ [][ErrorStepGoesOn]_vars

\* The update of the first watch of a group raised; the second watch of the
\* group, loaded at 0, was written with the open section and notified, and the
\* group loop has gone on.
C37_Witness ==
    \E id, other \in SnapIds :
        /\ id \in storeErr
        /\ other \notin storeErr
        /\ KeyOf(Loaded(other)) = KeyOf(Loaded(id))
        /\ PosInGroup(id) < PosInGroup(other)
        /\ Written(other)
        /\ attempts[other] = 1
        /\ gi > GroupIndex(KeyOf(Loaded(id)))

(***************************************************************************)
(* C38: the creation-time check                                            *)
(***************************************************************************)
\* The step in which add_alert_index creates a watch: the watch starts with
\* the count of its creation-time check when that check succeeded and wrote
\* its row, and with 0 and no row when it failed.
CreationSetsCount ==
    Len(alerts') > Len(alerts) =>
        LET new == Len(alerts')
            rows == RowsOf(history', new)
        IN  /\ pc \in AwaitPoints
            /\ Cardinality(rows) <= 1
            /\ rows = {} => alerts'[new].last_vacancy_count = 0
            /\ \A n \in rows :
                  alerts'[new].last_vacancy_count = history'[n].vacancy_count

\* What was last recorded for watch id is an open section: its creation-time
\* check or a later observation saw vacancy > 0 and nothing since saw 0.
LastSeenOpen(id) ==
    /\ RowsOf(history, id) # {}
    /\ history[LatestRow(history, id)].vacancy_count > 0

\* The scheduler starts no send for a watch last seen open: a watch created
\* with an open section gets none until a row with vacancy 0 came in between.
NoSendWhileSeenOpen ==
    \A id \in 1..Len(alerts) : SchedulerSends(id) => ~LastSeenOpen(id)

\* The scheduler's write of an open section for a watch not last seen open (no
\* row yet, its creation-time check having failed, or a latest row at 0)
\* starts its send.
SendOnFirstOpen ==
    \A id \in 1..Len(alerts) :
        (/\ SchedulerWrites(id)
         /\ history'[Len(history')].vacancy_count > 0
         /\ ~LastSeenOpen(id))
        => SchedulerSends(id)

\* C38: a watch created while its section has vacancy > 0 and whose
\* creation-time check succeeds starts with last_vacancy_count > 0, so the
\* scheduler sends no notification for it until the section has been observed
\* at 0 and later at > 0; a watch whose creation-time check fails starts at 0
\* and is notified on the first successful observation with vacancy > 0.
C38_CreationCheckSetsBaseline ==
    [][CreationSetsCount /\ NoSendWhileSeenOpen /\ SendOnFirstOpen]_vars

\* A watch whose creation-time check recorded an open section was written by
\* a cycle with the section still open, and no send was started for it.
C38_Witness ==
    \E id \in SnapIds :
        /\ Passed(id)
        /\ Cardinality(RowsOf(history, id)) = 2
        /\ \A n \in RowsOf(history, id) : history[n].vacancy_count > 0
        /\ \E n \in RowsOf(history, id) : n <= histAtStart
        /\ Cardinality(CycleRows(id)) = 1
        /\ attempts[id] = 0
        /\ streak[id] = 0

(***************************************************************************)
(* C39: run_forever returns after stop()                                   *)
(***************************************************************************)
\* Where a stopped run_forever goes next: out of the alert loop only into the
\* sleep that ends the group, out of that sleep to the break of the group
\* loop, out of the sleep between cycles to the while test, and from the
\* while test out of the loop; no cycle is begun on the way.
StoppedGoesToExit ==
    (Stopped /\ pc' # pc) =>
        /\ pc \in {"alert", "send"} => pc' \in {"alert", "send", "pace"}
        /\ pc = "pace" => (pc' = "group" /\ obs' = obs)
        /\ pc = "group" => pc' = "after_cycle"
        /\ pc \in {"after_cycle", "caught", "idle"} => pc' = "loop"
        /\ pc = "loop" => pc' = "done"
        /\ ~CycleBegins

\* C39: after stop() is called while run_forever is active, run_forever
\* eventually returns: the current group (if any) finishes, the current sleep
\* (if any) finishes, and the loop exits without starting another cycle.
C39_StopEndsRunForever ==
    /\ Stopped ~> pc = "done"
    /\ [][StoppedGoesToExit]_vars
    /\ [](pc = "done" => ~running)

\* run_forever has returned after cycles that wrote and notified a watch.
C39_Witness ==
    /\ pc = "done"
    /\ ~running
    /\ \E n \in 1..Len(history) : history[n].notification_sent

====
